---- MODULE Spec2Model ----
(***************************************************************************)
(* A model of the muffler simulator's real-time audio path                 *)
(* (crates/sim-core/src/audio.rs): the overlap-add ConvolutionEngine and   *)
(* the AudioPipeline with its owner thread, feeder (producer) thread and   *)
(* the output callback.                                                    *)
(*                                                                         *)
(* Samples are f64 in the source.  Here a finite sample is an integer, so  *)
(* sums and products are exact (rounding is not modelled); the non-finite  *)
(* values NaN and +/-infinity are three integers outside the range any     *)
(* finite sample of the model takes.                                       *)
(***************************************************************************)
EXTENDS Integers, Sequences, FiniteSets, TLC

\* ------------------------------------------------------------------ bounds
\* Longest impulse response offered to the engine.
MaxIrLen == 4
\* Longest input stream fed to the stand-alone engine (sum of block lengths).
MaxStream == 3
\* Samples per feeder block (block_size, 512 in AudioPipeline::new) and the
\* high-water mark in blocks (the 8 of block_size * 8), both scaled down.
block_size == 2
high_water_blocks == 1
\* Most feeder threads (play calls that got as far as the spawn) in one run.
MaxSessions == 2
\* Most parameter updates (swap_ir, set_pump_params, set_volume) in one run.
MaxTweaks == 2
\* Calls made on the stand-alone PumpSource, and the longest generate call.
MaxPumpOps == 3
MaxCount == 2
\* set_volume calls made on a pipeline in the volume test.
MaxVolCalls == 3
\* Elements of a custom muffler, and the largest fft_size swept.
MaxElements == 3
MaxFft == 6

\* ------------------------------------------------------- sample arithmetic
\* f64::NAN, f64::INFINITY and f64::NEG_INFINITY.
NaN == 1000000
PosInf == 1000001
NegInf == 1000002

\* f64::is_finite
is_finite(v) == v \notin {NaN, PosInf, NegInf}

Min(a, b) == IF a < b THEN a ELSE b
Max(a, b) == IF a > b THEN a ELSE b

RECURSIVE SumSeq(_)
SumSeq(s) == IF s = <<>> THEN 0 ELSE Head(s) + SumSeq(Tail(s))

\* vec![0.0; n]
Zeros(n) == [i \in 1..n |-> 0]

\* ------------------------------------------------------- ConvolutionEngine
\* A convolution that passes the block through whatever the IR holds.
ConvolveIgnoresIr(input, ir) == input \o Zeros(Len(ir) - 1)

\* The direct convolution loop: convolved[i + j] += x * h, over a zeroed
\* vector of conv_len = input.len() + ir.len() - 1 entries (1-based here).
Convolve(input, ir) ==
    [n \in 1..(Len(input) + Len(ir) - 1) |->
        SumSeq([i \in 1..Len(input) |->
                   IF (n + 1 - i) \in 1..Len(ir)
                   THEN input[i] * ir[n + 1 - i]
                   ELSE 0])]

\* A process that forgets the pending tail: nothing is added to the block head.
OverlapAddSkipped(convolved, overlap) == convolved

\* convolved[i] += overlap[i] for i < min(overlap.len(), conv_len)
OverlapAdd(convolved, overlap) ==
    [i \in 1..Len(convolved) |->
        IF i <= Min(Len(overlap), Len(convolved))
        THEN convolved[i] + overlap[i]
        ELSE convolved[i]]

\* A process that clears the overlap whatever its length.
LeftoverDiscarded(overlap, conv_len) == <<>>

\* The overlap after the add: the part of the old overlap beyond conv_len when
\* there is one (overlap[conv_len..]), and the cleared vector otherwise.
Leftover(overlap, conv_len) ==
    IF Len(overlap) > conv_len
    THEN SubSeq(overlap, conv_len + 1, Len(overlap))
    ELSE <<>>

\* merged = vec![0.0; max(new_tail.len(), overlap.len())], then both added in
\* from index 0.
MergeTail(leftover, new_tail) ==
    [i \in 1..Max(Len(new_tail), Len(leftover)) |->
        (IF i <= Len(leftover) THEN leftover[i] ELSE 0)
        + (IF i <= Len(new_tail) THEN new_tail[i] ELSE 0)]

\* A degenerate return that plays out the pending overlap.
DegenerateFlushesOverlap(overlap, input) ==
    [output |-> [i \in 1..Len(input) |-> IF i <= Len(overlap) THEN overlap[i] ELSE 0],
     overlap |-> IF Len(overlap) > Len(input)
                 THEN SubSeq(overlap, Len(input) + 1, Len(overlap))
                 ELSE <<>>]

\* The degenerate return: vec![0.0; input.len()], the overlap untouched.
Degenerate(overlap, input) ==
    [output |-> Zeros(Len(input)), overlap |-> overlap]

\* A split that returns the whole convolution, tail included.
SplitUntruncated(convolved, leftover, n) ==
    [output |-> convolved, overlap |-> leftover]

\* A split that drops the new tail instead of storing it.
SplitDropsTail(convolved, leftover, n) ==
    [output |-> SubSeq(convolved, 1, n), overlap |-> leftover]

\* The split of the summed convolution: the first input.len() samples are the
\* output and the rest is merged into the overlap.
Split(convolved, leftover, n) ==
    [output  |-> SubSeq(convolved, 1, n),
     overlap |-> IF Len(convolved) > n
                 THEN MergeTail(leftover, SubSeq(convolved, n + 1, Len(convolved)))
                 ELSE leftover]

\* ConvolutionEngine::process with the IR snapshot `ir` and the engine's
\* overlap: the returned block and the overlap it leaves.
Process(overlap, ir, input) ==
    IF Len(ir) = 0 \/ Len(input) = 0
    THEN Degenerate(overlap, input)
    ELSE LET conv_len == Len(input) + Len(ir) - 1
         IN Split(OverlapAdd(Convolve(input, ir), overlap),
                  Leftover(overlap, conv_len),
                  Len(input))


\* ------------------------------------------------------------ PumpSource
\* Fixed point: One is 1.0 for the fractions (volume, duty cycle, a pump
\* sample), TwoPi is one revolution of the phase accumulator.
One == 2
TwoPi == 12

\* f64 `%`: the remainder has the sign of the dividend.
Fmod(a, m) == IF a >= 0 THEN a % m ELSE -((-a) % m)

\* (PI * theta / active_angle).sin(), as the parabola through the same zeros
\* and the same peak: 0 at theta = 0, One at active_angle / 2, negative for
\* theta < 0.  With active_angle = 0 the quotient is not a number.
Pulse(theta, active_angle) ==
    IF active_angle = 0 THEN NaN
    ELSE (4 * theta * (active_angle - theta) * One) \div (active_angle * active_angle)

\* PumpSource::new
PumpNew(rpm, num_valves, duty_cycle, sample_rate) ==
    [rpm |-> rpm, num_valves |-> num_valves, duty_cycle |-> duty_cycle,
     phase |-> 0, sample_rate |-> sample_rate]

\* A refresh that copies nothing.
set_params_ignored(pump, rpm, num_valves, duty_cycle) == pump

\* A parameter change that restarts the revolution.
set_params_resets_phase(pump, rpm, num_valves, duty_cycle) ==
    [pump EXCEPT !.rpm = rpm, !.num_valves = num_valves,
                 !.duty_cycle = duty_cycle, !.phase = 0]

\* PumpSource::set_params
set_params(pump, rpm, num_valves, duty_cycle) ==
    [pump EXCEPT !.rpm = rpm, !.num_valves = num_valves, !.duty_cycle = duty_cycle]

\* One valve's contribution to the sample at the pump's phase.
ValveSample(pump, v) ==
    LET valve_phase == pump.phase + (TwoPi * v) \div pump.num_valves
        theta == Fmod(valve_phase, TwoPi)
        active_angle == (pump.duty_cycle * TwoPi) \div One
    IN IF theta < active_angle THEN Pulse(theta, active_angle) ELSE 0

\* The phase after one sample: phase += d_phase, then one subtraction of 2 pi
\* when the sum reached it.
AdvancePhase(pump) ==
    LET d_phase == (TwoPi * pump.rpm) \div (60 * pump.sample_rate)
        p == pump.phase + d_phase
    IN IF p >= TwoPi THEN p - TwoPi ELSE p

\* PumpSource::generate: the samples and the pump afterwards.
RECURSIVE generate(_, _)
generate(pump, count) ==
    IF count = 0 THEN [output |-> <<>>, pump |-> pump]
    ELSE LET sample == SumSeq([k \in 1..pump.num_valves |-> ValveSample(pump, k - 1)])
             rest == generate([pump EXCEPT !.phase = AdvancePhase(pump)], count - 1)
         IN [output |-> <<sample>> \o rest.output, pump |-> rest.pump]

\* ---------------------------------------------------------- AudioPipeline
\* i16::MAX and u16::MAX of the integer output formats.
I16Max == 32767
U16Max == 65535

\* `x as i16` / `x as u16` of the f64 n/d (d > 0): toward zero, saturating.
TruncDiv(n, d) == IF n >= 0 THEN n \div d ELSE -((-n) \div d)
Saturate(x, lo, hi) == IF x < lo THEN lo ELSE IF x > hi THEN hi ELSE x

\* A callback that ignores the volume.
EncodeNoVolume(format, sample, vol) ==
    LET p == sample * One
    IN CASE format = "F32" -> p
         [] format = "I16" -> IF p * I16Max >= 0 THEN (p * I16Max) \div (One * One)
                              ELSE -((-(p * I16Max)) \div (One * One))
         [] format = "U16" -> ((p + One * One) * U16Max) \div (2 * One * One)

\* What the callback writes for the ring sample `sample` (in units of 1/One)
\* at volume `vol` (in units of 1/One), per sample format.  The f32 value is
\* kept as the product, in units of 1/(One*One).
Encode(format, sample, vol) ==
    LET p == sample * vol
    IN CASE format = "F32" -> p
         [] format = "I16" -> Saturate(TruncDiv(p * I16Max, One * One), -I16Max - 1, I16Max)
         [] format = "U16" -> Saturate(TruncDiv((p + One * One) * U16Max, 2 * One * One), 0, U16Max)

\* vol.clamp(0.0, 1.0): a NaN is returned as it is.
clamp(vol) ==
    CASE vol = NaN -> NaN
      [] vol = PosInf -> One
      [] vol = NegInf -> 0
      [] OTHER -> IF vol < 0 THEN 0 ELSE IF vol > One THEN One ELSE vol

\* A swap_ir without the finiteness check.
swap_ir_unchecked(stored, ir) == ir

\* The IR swap_ir leaves in the shared handle for the candidate `ir`.
swap_ir(stored, ir) ==
    IF \A i \in 1..Len(ir) : is_finite(ir[i]) THEN ir ELSE stored

\* max_buffered = block_size * 8
max_buffered == block_size * high_water_blocks

\* A feeder that sleeps only above the mark, not at it.
RingFullAbove(buf) == Len(buf) > max_buffered

\* buf.len() >= max_buffered
RingFull(buf) == Len(buf) >= max_buffered

\* The callback loop over the frames: the ring after `frames` pop_front calls
\* and the frames written (every channel of a frame gets the same value).
RECURSIVE FillFrames(_, _, _, _, _)
FillFrames(buf, frames, channels, format, vol) ==
    IF frames = 0 THEN [ring |-> buf, data |-> <<>>]
    ELSE LET sample == IF buf = <<>> THEN 0 ELSE Head(buf)
             out == Encode(format, sample, vol)
             rest == FillFrames(IF buf = <<>> THEN buf ELSE Tail(buf),
                                frames - 1, channels, format, vol)
         IN [ring |-> rest.ring,
             data |-> <<[c \in 1..channels |-> out]>> \o rest.data]

\* -------------------------------------------------------- TransferMatrix
\* Fixed point of the acoustics: MUnit is 1.0 for matrix entries, impedances
\* and the transfer function.  A complex number is a record of two such
\* values; one with a NaN component stands for any non-finite result.
MUnit == 64
Complex(re, im) == [re |-> re, im |-> im]
CNaN == Complex(NaN, NaN)
IsNum(x) == is_finite(x.re) /\ is_finite(x.im)

\* Complex64 addition and multiplication, and division by a real.
CAdd(x, y) ==
    IF IsNum(x) /\ IsNum(y) THEN Complex(x.re + y.re, x.im + y.im) ELSE CNaN
CMul(x, y) ==
    IF IsNum(x) /\ IsNum(y)
    THEN Complex(TruncDiv(x.re * y.re - x.im * y.im, MUnit),
                 TruncDiv(x.re * y.im + x.im * y.re, MUnit))
    ELSE CNaN
CDivReal(x, r) ==
    IF IsNum(x) /\ r > 0
    THEN Complex(TruncDiv(x.re * MUnit, r), TruncDiv(x.im * MUnit, r))
    ELSE CNaN

\* Complex64 division x / y.
CDiv(x, y) ==
    LET n == y.re * y.re + y.im * y.im
    IN IF IsNum(x) /\ IsNum(y) /\ n > 0
       THEN Complex(TruncDiv((x.re * y.re + x.im * y.im) * MUnit, n),
                    TruncDiv((x.im * y.re - x.re * y.im) * MUnit, n))
       ELSE CNaN

\* TransferMatrix::identity
identity ==
    [a |-> Complex(MUnit, 0), b |-> Complex(0, 0),
     c |-> Complex(0, 0), d |-> Complex(MUnit, 0)]

\* A chain that multiplies in the opposite order: other * self.
chain_swapped(self, other) ==
    [a |-> CAdd(CMul(other.a, self.a), CMul(other.b, self.c)),
     b |-> CAdd(CMul(other.a, self.b), CMul(other.b, self.d)),
     c |-> CAdd(CMul(other.c, self.a), CMul(other.d, self.c)),
     d |-> CAdd(CMul(other.c, self.b), CMul(other.d, self.d))]

\* TransferMatrix::chain: self * other
chain(self, other) ==
    [a |-> CAdd(CMul(self.a, other.a), CMul(self.b, other.c)),
     b |-> CAdd(CMul(self.a, other.b), CMul(self.b, other.d)),
     c |-> CAdd(CMul(self.c, other.a), CMul(self.d, other.c)),
     d |-> CAdd(CMul(self.c, other.b), CMul(self.d, other.d))]

\* self.a + self.b / zl + zs * self.c + zs * self.d / zl
Numerator(t, z_source, z_load) ==
    LET zs == Complex(z_source, 0)
    IN CAdd(CAdd(t.a, CDivReal(t.b, z_load)),
            CAdd(CMul(zs, t.c), CDivReal(CMul(zs, t.d), z_load)))

\* floor(log2(n)) for n >= 1
RECURSIVE ILog2(_)
ILog2(n) == IF n <= 1 THEN 0 ELSE 1 + ILog2(n \div 2)

\* TransferMatrix::transmission_loss: 20 log10(|numerator| / 2), kept to whole
\* doublings of the power |numerator|^2 / 4 (3 dB each); 0 at |numerator| = 2.
transmission_loss(t, z_source, z_load) ==
    LET n == Numerator(t, z_source, z_load)
        power == n.re * n.re + n.im * n.im
    IN IF ~IsNum(n) THEN NaN
       ELSE IF power = 0 THEN NegInf
       ELSE 3 * (ILog2(power) - ILog2(4 * MUnit * MUnit))

\* TransferMatrix::pressure_transfer: 2 / numerator
pressure_transfer(t, z_source, z_load) ==
    CDiv(Complex(2 * MUnit, 0), Numerator(t, z_source, z_load))

\* ------------------------------------------------- StraightDuct, Muffler
\* A real number that may be any fraction: num / den.  den = 0 stands for
\* the non-finite results (x / 0); NaN when num = 0 as well.
Ratio(num, den) == [num |-> num, den |-> den]
RatioFinite(x) == x.den # 0

\* x < 1.0 (false for NaN and +infinity)
BelowOne(x) == x.den > 0 /\ x.num < x.den

\* cos and sin of a whole number q of quarter turns
Cos4(q) == CASE q % 4 = 0 -> 1 [] q % 4 = 2 -> -1 [] OTHER -> 0
Sin4(q) == CASE q % 4 = 1 -> 1 [] q % 4 = 3 -> -1 [] OTHER -> 0

\* area_from_diameter, in units of pi / 4: diameter^2
area_from_diameter(diameter) == diameter * diameter

\* StraightDuct::impedance: rho * c / area
impedance(duct, c, rho) == (rho * c * MUnit) \div area_from_diameter(duct.diameter)

\* StraightDuct::transfer_matrix.  omega is a Ratio in quarter turns per unit
\* of time; the angle k * length is kept to whole quarter turns, where cos
\* and sin are exact.
transfer_matrix(duct, omega, c, rho) ==
    IF ~RatioFinite(omega) THEN [a |-> CNaN, b |-> CNaN, c |-> CNaN, d |-> CNaN]
    ELSE LET z == impedance(duct, c, rho)
             kl == (omega.num * duct.length) \div (omega.den * c)
             cos_kl == Complex(Cos4(kl) * MUnit, 0)
             sin_kl == Complex(Sin4(kl) * MUnit, 0)
             j == Complex(0, MUnit)
         IN [a |-> cos_kl,
             b |-> CMul(CMul(j, Complex(z, 0)), sin_kl),
             c |-> CMul(CMul(j, Complex((MUnit * MUnit) \div z, 0)), sin_kl),
             d |-> cos_kl]

\* The loop of total_transfer_matrix: total = total.chain(&t) per element.
RECURSIVE ChainFrom(_, _, _, _, _)
ChainFrom(total, elements, omega, c, rho) ==
    IF elements = <<>> THEN total
    ELSE ChainFrom(chain(total, transfer_matrix(Head(elements), omega, c, rho)),
                   Tail(elements), omega, c, rho)

\* Muffler::total_transfer_matrix
total_transfer_matrix(muffler, omega, c, rho) ==
    ChainFrom(identity, muffler.elements, omega, c, rho)

\* Muffler::transmission_loss and Muffler::pressure_transfer
Muffler_transmission_loss(muffler, omega, c, rho) ==
    transmission_loss(total_transfer_matrix(muffler, omega, c, rho),
                      muffler.z_source, muffler.z_load)
Muffler_pressure_transfer(muffler, omega, c, rho) ==
    pressure_transfer(total_transfer_matrix(muffler, omega, c, rho),
                      muffler.z_source, muffler.z_load)

\* speed_of_sound_and_density: c rises and rho falls with the temperature
\* (two temperatures, in model units).
speed_of_sound_and_density(temperature) ==
    IF temperature > 20 THEN [c |-> 8, rho |-> 2] ELSE [c |-> 4, rho |-> 4]

\* Muffler::new
Muffler_new(elements, z_source, z_load) ==
    [elements |-> elements, z_source |-> z_source, z_load |-> z_load]

\* Muffler::from_params: inlet, chamber, outlet
from_params(params) ==
    LET inlet == [length |-> params.inlet_length, diameter |-> params.inlet_diameter]
        chamber == [length |-> params.chamber_length, diameter |-> params.chamber_diameter]
        outlet == [length |-> params.outlet_length, diameter |-> params.outlet_diameter]
        air == speed_of_sound_and_density(params.temperature)
    IN [elements |-> <<inlet, chamber, outlet>>,
        z_source |-> impedance(inlet, air.c, air.rho),
        z_load |-> impedance(outlet, air.c, air.rho)]

\* ------------------------------------------------------------------ sweep
\* Half the bins: a sweep without the bin at fft_size / 2.
num_bins_short(fft_size) == fft_size \div 2

\* num_bins = fft_size / 2 + 1
num_bins(fft_size) == fft_size \div 2 + 1

\* i as f64 * bin_width, with bin_width = sample_rate / fft_size
BinFrequency(i, rate, fft_size) == Ratio(i * rate, fft_size)

\* omega = 2 pi freq: four quarter turns per cycle
Omega(freq) == Ratio(4 * freq.num, freq.den)

\* A DC test that forces bin 0 only.
IsDcZeroOnly(freq) == freq.den > 0 /\ freq.num = 0

\* freq < 1.0
IsDc(freq) == BelowOne(freq)

\* frequency_response::sweep
sweep(muffler, fft_size, rate, c, rho) ==
    LET Bins == 1..num_bins(fft_size)
        Freq(b) == BinFrequency(b - 1, rate, fft_size)
    IN [frequencies |-> [b \in Bins |-> Freq(b)],
        tl |-> [b \in Bins |->
                  IF IsDc(Freq(b)) THEN 0
                  ELSE Muffler_transmission_loss(muffler, Omega(Freq(b)), c, rho)],
        hf |-> [b \in Bins |->
                  IF IsDc(Freq(b)) THEN Complex(MUnit, 0)
                  ELSE Muffler_pressure_transfer(muffler, Omega(Freq(b)), c, rho)]]

\* ------------------------------------------------- impulse_response
\* cos and sin of m twenty-fourths of a turn, in units of 1/MUnit (rounded).
Cos24(m) ==
    LET r == m % 24
        q == IF r > 12 THEN 24 - r ELSE r
        h == IF q > 6 THEN 12 - q ELSE q
        v == CASE h = 0 -> 64 [] h = 1 -> 62 [] h = 2 -> 55 [] h = 3 -> 45
               [] h = 4 -> 32 [] h = 5 -> 17 [] OTHER -> 0
    IN IF q > 6 THEN -v ELSE v
Sin24(m) == Cos24(m + 18)

\* expected_bins = fft_size / 2 + 1
expected_bins(fft_size) == fft_size \div 2 + 1

\* spectrum[0].im = 0.0; spectrum[last].im = 0.0
ForceReal(spectrum) ==
    [k \in 1..Len(spectrum) |->
        IF k = 1 \/ k = Len(spectrum)
        THEN [spectrum[k] EXCEPT !.im = 0]
        ELSE spectrum[k]]

\* realfft's inverse transform of length fft_size (not normalised): the real
\* sequence whose spectrum is the given half, mirrored by conjugation.  A
\* bin that is not a number spreads to every output sample.
Irfft(spectrum, fft_size) ==
    LET Term(k, n) ==
            LET x == spectrum[k + 1]
                angle == (24 * k * n) \div fft_size
                weight == IF k = 0 \/ 2 * k = fft_size THEN 1 ELSE 2
            IN weight * (TruncDiv(x.re * Cos24(angle), MUnit)
                         - TruncDiv(x.im * Sin24(angle), MUnit))
    IN [i \in 1..fft_size |->
          IF \E k \in 1..Len(spectrum) :
                ~is_finite(spectrum[k].re) \/ ~is_finite(spectrum[k].im)
          THEN NaN
          ELSE SumSeq([k \in 1..Len(spectrum) |-> Term(k - 1, i - 1)])]

\* *s *= norm, with norm = 1.0 / fft_size
Normalize(output, fft_size) ==
    [i \in 1..Len(output) |->
        IF is_finite(output[i]) THEN TruncDiv(output[i], fft_size) ELSE NaN]

\* A window that lets every sample through unchanged.
window_rectangular(i, ir_len) == MUnit

\* The Hann window 0.5 * (1 - cos(2 pi i / ir_len)), in units of 1/MUnit
window(i, ir_len) == (MUnit - Cos24((24 * i) \div ir_len)) \div 2

\* output[i] * window: not a number when the sample is not
Windowed(sample, w) ==
    IF is_finite(sample) THEN TruncDiv(sample * w, MUnit) ELSE NaN

\* ir_len = fft_size / 2
ir_len(fft_size) == fft_size \div 2

\* A compute without the length assertion: the bins that are there are used
\* and the ones that are missing count as 0.
compute_unchecked(transfer_function, fft_size) ==
    LET spectrum == ForceReal([k \in 1..expected_bins(fft_size) |->
                        IF k <= Len(transfer_function) THEN transfer_function[k]
                        ELSE Complex(0, 0)])
        output == Normalize(Irfft(spectrum, fft_size), fft_size)
    IN [status |-> "returned", transformed |-> TRUE,
        ir |-> [i \in 1..ir_len(fft_size) |->
                  Windowed(output[i], window(i - 1, ir_len(fft_size)))]]

\* impulse_response::compute: the assertion, the inverse transform, the
\* normalisation, the window and the truncation.
compute(transfer_function, fft_size) ==
    IF Len(transfer_function) # expected_bins(fft_size)
    THEN [status |-> "panicked", transformed |-> FALSE, ir |-> <<>>]
    ELSE LET spectrum == ForceReal(transfer_function)
             output == Normalize(Irfft(spectrum, fft_size), fft_size)
         IN [status |-> "returned", transformed |-> TRUE,
             ir |-> [i \in 1..ir_len(fft_size) |->
                       Windowed(output[i], window(i - 1, ir_len(fft_size)))]]

\* ------------------------------------------------------------------- state
VARIABLES
    \* the stand-alone engine (as the unit tests drive it)
    impulse_response,   \* ConvolutionEngine.impulse_response
    overlap,            \* ConvolutionEngine.overlap
    \* what the last process call saw and returned, and the history of calls
    last_input,         \* the input of the last process call
    last_ir,            \* the IR snapshot the last process call took
    last_overlap,       \* the overlap before the last process call
    last_output,        \* what the last process call returned
    calls,              \* whether process was called at all
    in_stream,          \* concatenation of all inputs
    out_stream,         \* concatenation of all outputs
    expected_sum,       \* sum over the calls of sum(input) * sum(ir snapshot)
    expected_stream,    \* sum over the calls of the block's convolution with
                        \* its IR snapshot, placed at the block's start offset
    ir_replaced         \* the IR was replaced after the first process call

VARIABLES
    \* AudioPipeline's fields
    playing,            \* AudioPipeline.playing
    volume,             \* AudioPipeline.volume, in units of 1/One
    ir_handle,          \* AudioPipeline.ir_handle: the shared impulse response
    pump_params,        \* AudioPipeline.pump_params
    sample_rate,        \* AudioPipeline.sample_rate
    stream,             \* AudioPipeline.stream: 0 (None) or the session of the stream
    feeder_handle,      \* AudioPipeline.feeder_handle: 0 (None) or the session joined
    feeder_running,     \* AudioPipeline.feeder_running
    \* the environment and the threads
    device,             \* the default output device's format, channels and rate
    sessions,           \* feeder threads spawned so far
    feeder,             \* per session: the feeder thread (pc, pump, overlap, block)
    ring,               \* per session: the ring buffer shared with the callback
    owner_pc,           \* where the owning thread is inside play / stop / drop
    dropped,            \* the pipeline's drop has begun
    \* history
    cb,                 \* the callback invocation that has just returned, if
                        \* the last step was one: the volume it read, the
                        \* ring as it found it, and the frames it wrote
    last_api,           \* the last API call the owner made
    play_result,        \* how the last play call ended
    last_finite_ir,     \* the last swap_ir candidate without NaN or infinity
    tweaks              \* parameter updates made so far

VARIABLES
    \* the stand-alone PumpSource (as the unit tests drive it)
    pump_src,           \* the PumpSource
    pump_prev,          \* the PumpSource before the last call
    pump_op,            \* the last call: "new", "set_params" or "generate"
    pump_count,         \* the count argument of the last generate call
    pump_out,           \* what the last generate call returned
    pump_ops            \* calls made so far

pump_vars == <<pump_src, pump_prev, pump_op, pump_count, pump_out, pump_ops>>

VARIABLES
    vol_args            \* the arguments of the set_volume calls of the volume test

vol_vars == <<vol_args>>

VARIABLES
    \* the acoustics (as compute and the unit tests drive it)
    ac_muffler,         \* the Muffler
    ac_in,              \* the inputs: the SimParams the muffler was built
                        \* from (if it was), fft_size, rate, c, rho
    ac_sweep,           \* what sweep returned, once it was called
    ac_omega,           \* the omega of the last total_transfer_matrix call
    ac_total            \* what that call returned

acoustic_vars == <<ac_muffler, ac_in, ac_sweep, ac_omega, ac_total>>

VARIABLES
    \* impulse_response::compute (as lib.rs and the unit test call it)
    tf_in,              \* the transfer_function argument
    fft_in,             \* the fft_size argument
    ir_out              \* how the call ended, and the impulse response

irc_vars == <<tf_in, fft_in, ir_out>>

VARIABLES
    \* one session of the pipeline at the grain of its mutexes
    lg_held,            \* per mutex: the context that holds it, or "none"
    lg_pc,              \* per context: where it is in its code
    lg_ir,              \* the Vec behind ir_handle (it can be half assigned)
    lg_arg,             \* the argument of the swap_ir call in progress
    lg_returned,        \* the IR stored by the last swap_ir that returned
    lg_snapshot,        \* the clone process() took of the IR
    lg_pump,            \* the feeder's PumpSource
    lg_raw,             \* the block the feeder generated
    lg_overlap,         \* the feeder engine's overlap
    lg_processed,       \* the block the feeder convolved
    lg_ring,            \* samples in the ring
    lg_running,         \* feeder_running
    lg_stream           \* the stream exists (callbacks are made)

lg_vars == <<lg_held, lg_pc, lg_ir, lg_arg, lg_returned, lg_snapshot, lg_pump,
             lg_raw, lg_overlap, lg_processed, lg_ring, lg_running, lg_stream>>

\* What the feeder of each session has pushed onto its ring so far, and what
\* the callback has popped from it, in order.
VARIABLES
    h_pushed,
    h_played

hist_vars == <<h_pushed, h_played>>

\* The components driven on their own, outside the pipeline.
alone_vars == <<pump_vars, vol_vars, acoustic_vars, irc_vars, lg_vars, hist_vars>>

\* The stand-alone engine's own state.
conv_vars == <<impulse_response, overlap, last_input, last_ir, last_overlap,
               last_output, calls, in_stream, out_stream, expected_sum,
               expected_stream,
               ir_replaced>>

engine_vars == <<impulse_response, overlap, last_input, last_ir, last_overlap,
                 last_output, calls, in_stream, out_stream, expected_sum,
               expected_stream,
                 ir_replaced, alone_vars>>

field_vars == <<playing, volume, ir_handle, pump_params, sample_rate, stream,
                feeder_handle, feeder_running>>

pipe_vars == <<field_vars, device, sessions, feeder, ring, owner_pc, dropped,
               cb, last_api, play_result, last_finite_ir, tweaks>>

vars == <<engine_vars, pipe_vars>>

\* ------------------------------------------------- the stand-alone engine
\* Sample values of the input blocks and of the impulse responses offered.
InputVals == {-1, 2}
Blocks(maxlen) == UNION {[1..n -> InputVals] : n \in 0..maxlen}

\* The impulse responses offered: for every length up to MaxIrLen the taps
\* 1, 2, ..., k (distinct at every index), and the scalar gain [2].
IrCandidates == {[i \in 1..k |-> i] : k \in 0..MaxIrLen} \cup {<<2>>}

\* The stream `acc` with the convolution of one block and its IR snapshot
\* added in at the block's start offset (nothing for an empty block or IR).
PlaceAt(acc, offset, input, ir) ==
    IF input = <<>> \/ ir = <<>> THEN acc
    ELSE LET conv == Convolve(input, ir)
         IN [n \in 1..Max(Len(acc), offset + Len(conv)) |->
               (IF n <= Len(acc) THEN acc[n] ELSE 0)
               + (IF n > offset /\ n <= offset + Len(conv) THEN conv[n - offset] ELSE 0)]

\* A PumpSource just constructed, with no call made on it.
PumpStart(rpm, num_valves, duty_cycle, rate) ==
    /\ pump_src = PumpNew(rpm, num_valves, duty_cycle, rate)
    /\ pump_prev = pump_src
    /\ pump_op = "new"
    /\ pump_count = 0
    /\ pump_out = <<>>
    /\ pump_ops = 0

\* No result yet (of sweep, of total_transfer_matrix).
NoResult == [called |-> FALSE]

\* A muffler built by Muffler::new carries no SimParams.
NoParams == [custom |-> TRUE]

\* A muffler and the arguments of a sweep, with nothing computed yet.
AcousticStart(m, params, fft_size, rate, temperature) ==
    /\ ac_muffler = m
    /\ ac_in = [params |-> params, fft_size |-> fft_size, rate |-> rate,
                c |-> speed_of_sound_and_density(temperature).c,
                rho |-> speed_of_sound_and_density(temperature).rho]
    /\ ac_sweep = NoResult
    /\ ac_omega = Ratio(0, 1)
    /\ ac_total = NoResult

\* SimParams::default, in model units: a narrow inlet and outlet around a
\* wide chamber, at 20 degrees.
DefaultParams ==
    [inlet_length |-> 3, inlet_diameter |-> 1,
     chamber_length |-> 8, chamber_diameter |-> 4,
     outlet_length |-> 3, outlet_diameter |-> 1,
     temperature |-> 20]

\* The stand-alone components as constructed with the defaults.
PumpDefault == PumpStart(3000, 3, One \div 2, 100)
AcousticDefault ==
    AcousticStart(from_params(DefaultParams), DefaultParams, 4, 8,
                  DefaultParams.temperature)
\* The arguments of a compute call that has not been made yet.
IrcStart(transfer_function, fft_size) ==
    /\ tf_in = transfer_function
    /\ fft_in = fft_size
    /\ ir_out = [status |-> "none", transformed |-> FALSE, ir |-> <<>>]

\* The unity transfer function of test_delta_impulse_identity, at size 4.
IrcDefault == IrcStart([k \in 1..3 |-> Complex(MUnit, 0)], 4)

\* The execution contexts and the four mutexes of a pipeline.
Contexts == {"owner", "producer", "callback"}
Locks == {"ir", "pump", "volume", "ring"}

\* AudioPipeline::new at the grain of the mutexes: nothing is locked, the
\* owner is in no call, there is no feeder and no stream.
LockGrainNew ==
    /\ lg_held = [l \in Locks |-> "none"]
    /\ lg_pc = [c \in Contexts |-> IF c = "producer" THEN "none" ELSE "idle"]
    /\ lg_ir = <<1>>
    /\ lg_arg = <<>>
    /\ lg_returned = <<1>>
    /\ lg_snapshot = <<1>>
    /\ lg_pump = PumpNew(3000, 3, One \div 2, 100)
    /\ lg_raw = <<>>
    /\ lg_overlap = <<>>
    /\ lg_processed = <<>>
    /\ lg_ring = 0
    /\ lg_running = FALSE
    /\ lg_stream = FALSE

\* Nothing pushed, nothing played.
HistNew ==
    /\ h_pushed = [s \in 1..MaxSessions |-> <<>>]
    /\ h_played = [s \in 1..MaxSessions |-> <<>>]

AloneNew ==
    PumpDefault /\ vol_args = <<>> /\ AcousticDefault /\ IrcDefault /\ LockGrainNew /\ HistNew

\* ConvolutionEngine::new: the unit impulse and an empty overlap.
EngineNew ==
    /\ impulse_response = <<1>>
    /\ overlap = <<>>
    /\ last_input = <<>>
    /\ last_ir = <<>>
    /\ last_overlap = <<>>
    /\ last_output = <<>>
    /\ calls = FALSE
    /\ in_stream = <<>>
    /\ out_stream = <<>>
    /\ expected_sum = 0
    /\ expected_stream = <<>>
    /\ ir_replaced = FALSE

\* engine.process(&input)
EngineProcess ==
    \E input \in Blocks(MaxStream - Len(in_stream)) :
        LET r == Process(overlap, impulse_response, input)
        IN /\ overlap' = r.overlap
           /\ last_input' = input
           /\ last_ir' = impulse_response
           /\ last_overlap' = overlap
           /\ last_output' = r.output
           /\ calls' = TRUE
           /\ in_stream' = in_stream \o input
           /\ out_stream' = out_stream \o r.output
           /\ expected_sum' = expected_sum + SumSeq(input) * SumSeq(impulse_response)
           /\ expected_stream' = PlaceAt(expected_stream, Len(in_stream),
                                         input, impulse_response)
           /\ UNCHANGED <<impulse_response, ir_replaced, alone_vars, pipe_vars>>

\* *engine.impulse_response.lock() = ir (the tests, and swap_ir through the
\* shared handle)
EngineSetIr ==
    \E ir \in IrCandidates :
        /\ ir # impulse_response
        /\ impulse_response' = ir
        /\ ir_replaced' = (ir_replaced \/ calls)
        /\ UNCHANGED <<overlap, last_input, last_ir, last_overlap, last_output,
                       calls, in_stream, out_stream, expected_sum,
                       expected_stream, alone_vars,
                       pipe_vars>>

EngineNext == EngineProcess \/ EngineSetIr

\* ------------------------------------------------------ the audio pipeline
Sessions == 1..MaxSessions

\* The sample formats play can build a stream for, and one it cannot.
SupportedFormats == {"F32", "I16", "U16"}
Devices ==
    {[format |-> "F32", channels |-> 2, rate |-> 100],
     [format |-> "I16", channels |-> 1, rate |-> 100],
     [format |-> "U16", channels |-> 2, rate |-> 100],
     [format |-> "I8", channels |-> 1, rate |-> 100]}

\* Arguments offered to the API.
SwapCandidates == {<<>>, <<1, 2>>, <<1, NaN>>, <<PosInf>>, <<NegInf, 1>>}
PumpChoices == {[rpm |-> 3000, num_valves |-> 3, duty_cycle |-> 1],
                [rpm |-> 6000, num_valves |-> 2, duty_cycle |-> 2]}
VolumeArgs == (-1)..(One + 1)
\* Frames the device asks one callback to fill: one, or a block's worth.
FrameCounts == {1, block_size}

\* No callback has just returned: its data buffer exists only for the call.
NoCallback == [called |-> FALSE, vol |-> 0, ring |-> <<>>, data |-> <<>>]

\* A thread that does not exist (not spawned yet, or returned).
NoThread(pc) ==
    [pc |-> pc, pump |-> PumpNew(0, 0, 0, 1), overlap |-> <<>>, processed |-> <<>>]

\* AudioPipeline::new
PipelineNew ==
    /\ playing = FALSE
    /\ volume = One \div 2
    /\ ir_handle = <<1>>
    /\ pump_params = [rpm |-> 3000, num_valves |-> 3, duty_cycle |-> One \div 2]
    /\ sample_rate = 44100
    /\ stream = 0
    /\ feeder_handle = 0
    /\ feeder_running = FALSE
    /\ sessions = 0
    /\ feeder = [s \in Sessions |-> NoThread("none")]
    /\ ring = [s \in Sessions |-> <<>>]
    /\ owner_pc = "idle"
    /\ dropped = FALSE
    /\ cb = NoCallback
    /\ last_api = "new"
    /\ play_result = "none"
    /\ last_finite_ir = <<1>>
    /\ tweaks = 0

Init == EngineNew /\ AloneNew /\ PipelineNew /\ device \in Devices

\* The owner can make an API call: it is in no call and the pipeline exists.
OwnerIdle == owner_pc = "idle" /\ ~dropped

\* The owner can make one more parameter update.
CanTweak == OwnerIdle /\ tweaks < MaxTweaks

\* AudioPipeline::swap_ir
SwapIr ==
    \E ir \in SwapCandidates :
        /\ CanTweak
        /\ ir_handle' = swap_ir(ir_handle, ir)
        /\ last_finite_ir' = IF \E i \in 1..Len(ir) : ir[i] \in {NaN, PosInf, NegInf}
                             THEN last_finite_ir ELSE ir
        /\ tweaks' = tweaks + 1
        /\ last_api' = IF \E i \in 1..Len(ir) : ir[i] \in {NaN, PosInf, NegInf}
                       THEN "swap_ir_rejected" ELSE "swap_ir"
        /\ cb' = NoCallback
        /\ UNCHANGED <<engine_vars, playing, volume, pump_params, sample_rate,
                       stream, feeder_handle, feeder_running, device, sessions,
                       feeder, ring, owner_pc, dropped, play_result>>

\* AudioPipeline::set_pump_params
SetPumpParams ==
    \E p \in PumpChoices :
        /\ CanTweak
        /\ pump_params' = [rpm |-> p.rpm, num_valves |-> p.num_valves,
                           duty_cycle |-> p.duty_cycle]
        /\ tweaks' = tweaks + 1
        /\ last_api' = "set_pump_params"
        /\ cb' = NoCallback
        /\ UNCHANGED <<engine_vars, playing, volume, ir_handle, sample_rate,
                       stream, feeder_handle, feeder_running, device, sessions,
                       feeder, ring, owner_pc, dropped, play_result, last_finite_ir>>

\* AudioPipeline::set_volume
SetVolume ==
    \E vol \in VolumeArgs :
        /\ CanTweak
        /\ volume' = clamp(vol)
        /\ tweaks' = tweaks + 1
        /\ last_api' = "set_volume"
        /\ cb' = NoCallback
        /\ UNCHANGED <<engine_vars, playing, ir_handle, pump_params, sample_rate,
                       stream, feeder_handle, feeder_running, device, sessions,
                       feeder, ring, owner_pc, dropped, play_result, last_finite_ir>>

\* A play() without the early return: it spawns another feeder.
PlayAgainSpawns ==
    /\ owner_pc = "idle" /\ ~dropped
    /\ playing
    /\ sessions < MaxSessions
    /\ sessions' = sessions + 1
    /\ feeder' = [feeder EXCEPT ![sessions + 1].pc = "start"]
    /\ feeder_handle' = sessions + 1
    /\ last_api' = "play"
    /\ play_result' = "while_playing"
    /\ cb' = [called |-> FALSE, vol |-> 0, ring |-> <<>>, data |-> <<>>]
    /\ UNCHANGED <<engine_vars, playing, volume, ir_handle, pump_params,
                   sample_rate, stream, feeder_running, device, ring, owner_pc,
                   dropped, last_finite_ir, tweaks>>

\* play() on a playing pipeline: the early return.
PlayAlreadyPlaying ==
    /\ OwnerIdle
    /\ playing
    /\ last_api' = "play"
    /\ play_result' = "while_playing"
    /\ cb' = NoCallback
    /\ UNCHANGED <<engine_vars, field_vars, device, sessions, feeder, ring,
                   owner_pc, dropped, last_finite_ir, tweaks>>

\* play(): no default output device, or no default output config.  The expect
\* panics before anything is spawned.
PlayNoDevice ==
    \E why \in {"no_device", "no_config"} :
        /\ OwnerIdle
        /\ ~playing
        /\ owner_pc' = "panicked"
        /\ play_result' = why
        /\ last_api' = "play"
        /\ cb' = NoCallback
        /\ UNCHANGED <<engine_vars, field_vars, device, sessions, feeder, ring,
                       dropped, last_finite_ir, tweaks>>

\* A play() that goes on to spawn a feeder whatever the playing flag says.
PlaySpawnUnguarded ==
    /\ owner_pc = "idle" /\ ~dropped
    /\ sessions < MaxSessions
    /\ sample_rate' = device.rate
    /\ feeder_running' = TRUE
    /\ sessions' = sessions + 1
    /\ feeder' = [feeder EXCEPT ![sessions + 1].pc = "start"]
    /\ ring' = [ring EXCEPT ![sessions + 1] = <<>>]
    /\ feeder_handle' = sessions + 1
    /\ owner_pc' = "play_spawned"
    /\ play_result' = "pending"
    /\ last_api' = "play"
    /\ cb' = [called |-> FALSE, vol |-> 0, ring |-> <<>>, data |-> <<>>]
    /\ UNCHANGED <<engine_vars, playing, volume, ir_handle, pump_params, stream,
                   device, dropped, last_finite_ir, tweaks>>

\* play() up to and including the spawn of the feeder thread.
PlaySpawn ==
    /\ OwnerIdle
    /\ ~playing
    /\ sessions < MaxSessions
    /\ sample_rate' = device.rate
    /\ feeder_running' = TRUE
    /\ sessions' = sessions + 1
    /\ feeder' = [feeder EXCEPT ![sessions + 1] = NoThread("start")]
    /\ ring' = [ring EXCEPT ![sessions + 1] = <<>>]
    /\ feeder_handle' = sessions + 1
    /\ owner_pc' = "play_spawned"
    /\ play_result' = "pending"
    /\ last_api' = "play"
    /\ cb' = NoCallback
    /\ UNCHANGED <<engine_vars, playing, volume, ir_handle, pump_params, stream,
                   device, dropped, last_finite_ir, tweaks>>

\* play(): the stream is built and started.
PlayStarted ==
    /\ owner_pc = "play_spawned"
    /\ device.format \in SupportedFormats
    /\ stream' = feeder_handle
    /\ playing' = TRUE
    /\ owner_pc' = "idle"
    /\ play_result' = "ok"
    /\ cb' = NoCallback
    /\ UNCHANGED <<engine_vars, volume, ir_handle, pump_params, sample_rate,
                   feeder_handle, feeder_running, device, sessions, feeder, ring,
                   dropped, last_api,
                   last_finite_ir, tweaks>>

\* play(): build_output_stream or stream.play() returns an error and the
\* expect panics, after the feeder was spawned.
PlayStreamError ==
    \E why \in {"build_failed", "start_failed"} :
        /\ owner_pc = "play_spawned"
        /\ device.format \in SupportedFormats
        /\ owner_pc' = "panicked"
        /\ play_result' = why
        /\ cb' = NoCallback
        /\ UNCHANGED <<engine_vars, field_vars, device, sessions, feeder, ring,
                       dropped, last_api,
                       last_finite_ir, tweaks>>

\* play(): unsupported sample format; the feeder is told to stop.
PlayUnsupported ==
    /\ owner_pc = "play_spawned"
    /\ device.format \notin SupportedFormats
    /\ feeder_running' = FALSE
    /\ owner_pc' = "play_join"
    /\ cb' = NoCallback
    /\ UNCHANGED <<engine_vars, playing, volume, ir_handle, pump_params,
                   sample_rate, stream, feeder_handle, device, sessions, feeder,
                   ring, dropped, last_api,
                   play_result, last_finite_ir, tweaks>>

\* play(): unsupported sample format; feeder_handle.take() and the join.
PlayJoin ==
    /\ owner_pc = "play_join"
    /\ feeder_handle # 0 => feeder[feeder_handle].pc = "exited"
    /\ feeder_handle' = 0
    /\ owner_pc' = "idle"
    /\ play_result' = "unsupported"
    /\ cb' = NoCallback
    /\ UNCHANGED <<engine_vars, playing, volume, ir_handle, pump_params,
                   sample_rate, stream, feeder_running, device, sessions, feeder,
                   ring, dropped, last_api,
                   last_finite_ir, tweaks>>

\* stop() on a pipeline that is not playing: the early return.
StopNotPlaying ==
    /\ OwnerIdle
    /\ ~playing
    /\ last_api' = "stop"
    /\ cb' = NoCallback
    /\ UNCHANGED <<engine_vars, field_vars, device, sessions, feeder, ring,
                   owner_pc, dropped, play_result,
                   last_finite_ir, tweaks>>

\* The ring of session s is freed with its last holder.
Release(rings, s) == [rings EXCEPT ![s] = <<>>]

\* stop() on a playing pipeline: the running flag is cleared and the stream
\* is dropped (self.stream.take()), which ends the callbacks.
StopSignal ==
    /\ OwnerIdle
    /\ playing
    /\ feeder_running' = FALSE
    /\ stream' = 0
    /\ ring' = IF stream # 0 /\ feeder[stream].pc = "exited"
               THEN Release(ring, stream) ELSE ring
    /\ owner_pc' = "stop_join"
    /\ last_api' = "stop"
    /\ cb' = NoCallback
    /\ UNCHANGED <<engine_vars, playing, volume, ir_handle, pump_params,
                   sample_rate, feeder_handle, device, sessions, feeder,
                   dropped, play_result,
                   last_finite_ir, tweaks>>

\* A stop() that takes the handle but does not wait for the thread.
StopWithoutJoin ==
    /\ owner_pc = "stop_join"
    /\ feeder_handle' = 0
    /\ playing' = FALSE
    /\ owner_pc' = IF dropped THEN "dropped" ELSE "idle"
    /\ cb' = [called |-> FALSE, vol |-> 0, ring |-> <<>>, data |-> <<>>]
    /\ UNCHANGED <<engine_vars, volume, ir_handle, pump_params, sample_rate,
                   stream, feeder_running, device, sessions, feeder, ring,
                   dropped, last_api, play_result, last_finite_ir, tweaks>>

\* A stop() that joins the feeder but forgets playing.store(false).
StopLeavesPlaying ==
    /\ owner_pc = "stop_join"
    /\ feeder_handle # 0 => feeder[feeder_handle].pc = "exited"
    /\ feeder_handle' = 0
    /\ owner_pc' = IF dropped THEN "dropped" ELSE "idle"
    /\ cb' = [called |-> FALSE, vol |-> 0, ring |-> <<>>, data |-> <<>>]
    /\ UNCHANGED <<engine_vars, playing, volume, ir_handle, pump_params,
                   sample_rate, stream, feeder_running, device, sessions, feeder,
                   ring, dropped, last_api, play_result, last_finite_ir, tweaks>>

\* stop(): feeder_handle.take(), the join, and playing.store(false).  When the
\* stop is the drop's, the pipeline is gone afterwards.
StopJoin ==
    /\ owner_pc = "stop_join"
    /\ feeder_handle # 0 => feeder[feeder_handle].pc = "exited"
    /\ feeder_handle' = 0
    /\ playing' = FALSE
    /\ owner_pc' = IF dropped THEN "dropped" ELSE "idle"
    /\ cb' = NoCallback
    /\ UNCHANGED <<engine_vars, volume, ir_handle, pump_params, sample_rate,
                   stream, feeder_running, device, sessions, feeder, ring,
                   dropped, last_api, play_result,
                   last_finite_ir, tweaks>>

\* Drop for AudioPipeline: stop(), then the fields are dropped.  A panic in
\* play unwinds into this drop.  On a pipeline that is not playing stop
\* returns at once and the JoinHandle is dropped without a join.
DropPipeline ==
    /\ owner_pc \in {"idle", "panicked"}
    /\ ~dropped
    /\ dropped' = TRUE
    /\ last_api' = "drop"
    /\ IF playing
       THEN /\ feeder_running' = FALSE
            /\ stream' = 0
            /\ ring' = IF stream # 0 /\ feeder[stream].pc = "exited"
                       THEN Release(ring, stream) ELSE ring
            /\ owner_pc' = "stop_join"
            /\ UNCHANGED feeder_handle
       ELSE /\ owner_pc' = "dropped"
            /\ stream' = 0
            /\ feeder_handle' = 0
            /\ UNCHANGED <<feeder_running, ring>>
    /\ cb' = NoCallback
    /\ UNCHANGED <<engine_vars, playing, volume, ir_handle, pump_params,
                   sample_rate, device, sessions, feeder, play_result, last_finite_ir, tweaks>>

\* A feeder that builds its PumpSource with the defaults of
\* AudioPipeline::new instead of the shared parameters.
FeederStartDefaultPump(s) ==
    /\ feeder[s].pc = "start"
    /\ feeder' = [feeder EXCEPT ![s] =
                     [pc |-> "loop",
                      pump |-> PumpNew(3000, 3, One \div 2, device.rate),
                      overlap |-> <<>>,
                      processed |-> <<>>]]
    /\ cb' = [called |-> FALSE, vol |-> 0, ring |-> <<>>, data |-> <<>>]
    /\ UNCHANGED <<engine_vars, field_vars, device, sessions, ring, owner_pc,
                   dropped, last_api, play_result,
                   last_finite_ir, tweaks>>

\* The feeder thread starts: its own engine (empty overlap) and a PumpSource
\* built from the shared parameters at the device's sample rate.
FeederStart(s) ==
    /\ feeder[s].pc = "start"
    /\ feeder' = [feeder EXCEPT ![s] =
                     [pc |-> "loop",
                      pump |-> PumpNew(pump_params.rpm, pump_params.num_valves,
                                       pump_params.duty_cycle, device.rate),
                      overlap |-> <<>>,
                      processed |-> <<>>]]
    /\ cb' = NoCallback
    /\ UNCHANGED <<engine_vars, field_vars, device, sessions, ring, owner_pc,
                   dropped, last_api, play_result,
                   last_finite_ir, tweaks>>

\* A feeder loop that never looks at the running flag.
FeederLoopIgnoresFlag(s) ==
    /\ feeder[s].pc = "loop"
    /\ \E pump \in {set_params(feeder[s].pump, pump_params.rpm,
                               pump_params.num_valves, pump_params.duty_cycle)} :
       \E raw \in {generate(pump, block_size)} :
       \E r \in {Process(feeder[s].overlap, ir_handle, raw.output)} :
          /\ feeder' = IF RingFull(ring[s])
                       THEN [feeder EXCEPT ![s].pump = pump]
                       ELSE [feeder EXCEPT ![s] =
                                [pc |-> "push", pump |-> raw.pump,
                                 overlap |-> r.overlap,
                                 processed |-> r.output]]
          /\ ring' = ring
    /\ cb' = [called |-> FALSE, vol |-> 0, ring |-> <<>>, data |-> <<>>]
    /\ UNCHANGED <<engine_vars, field_vars, device, sessions, owner_pc, dropped,
                   last_api, play_result,
                   last_finite_ir, tweaks>>

\* One pass of the feeder loop up to the push.  The running flag is polled:
\* when it is clear the thread returns.  Otherwise the pump parameters are
\* refreshed and the ring occupancy is read: at or above max_buffered the
\* feeder sleeps and starts over; below it, it generates a block, convolves
\* it with the IR snapshot taken under the lock, and goes on to push it.
FeederLoop(s) ==
    /\ feeder[s].pc = "loop"
    /\ IF ~feeder_running
       THEN /\ feeder' = [feeder EXCEPT ![s] = NoThread("exited")]
            /\ ring' = IF stream # s THEN Release(ring, s) ELSE ring
       ELSE \E pump \in {set_params(feeder[s].pump, pump_params.rpm,
                                    pump_params.num_valves, pump_params.duty_cycle)} :
            \E raw \in {generate(pump, block_size)} :
            \E r \in {Process(feeder[s].overlap, ir_handle, raw.output)} :
               /\ feeder' = IF RingFull(ring[s])
                            THEN [feeder EXCEPT ![s].pump = pump]
                            ELSE [feeder EXCEPT ![s] =
                                     [pc |-> "push", pump |-> raw.pump,
                                      overlap |-> r.overlap,
                                      processed |-> r.output]]
               /\ ring' = ring
    /\ cb' = NoCallback
    /\ UNCHANGED <<engine_vars, field_vars, device, sessions, owner_pc, dropped,
                   last_api, play_result,
                   last_finite_ir, tweaks>>

\* A push that puts the block in front of what the ring holds.
FeederPushFront(s) ==
    /\ feeder[s].pc = "push"
    /\ ring' = [ring EXCEPT ![s] = feeder[s].processed \o @]
    /\ feeder' = [feeder EXCEPT ![s].pc = "loop", ![s].processed = <<>>]
    /\ cb' = [called |-> FALSE, vol |-> 0, ring |-> <<>>, data |-> <<>>]
    /\ UNCHANGED <<field_vars, device, sessions, owner_pc, dropped,
                   last_api, play_result,
                   last_finite_ir, tweaks>>

\* for &s in &processed { buf.push_back(s) } under the ring lock: what the
\* push does to the pipeline.
FeederPushStep(s) ==
    /\ feeder[s].pc = "push"
    /\ ring' = [ring EXCEPT ![s] = @ \o feeder[s].processed]
    /\ feeder' = [feeder EXCEPT ![s].pc = "loop", ![s].processed = <<>>]
    /\ cb' = NoCallback
    /\ UNCHANGED <<field_vars, device, sessions, owner_pc, dropped,
                   last_api, play_result,
                   last_finite_ir, tweaks>>

\* The block is pushed onto the ring tail under the ring lock.
FeederPush(s) == FeederPushStep(s) /\ UNCHANGED engine_vars

\* One invocation of the output callback: the volume is read, then the frames
\* are filled under the ring lock.
CallbackStep(frames) ==
    LET r == FillFrames(ring[stream], frames, device.channels, device.format,
                        volume)
    IN /\ stream # 0
       /\ ring' = [ring EXCEPT ![stream] = r.ring]
       /\ cb' = [called |-> TRUE, vol |-> volume, ring |-> ring[stream],
                 data |-> r.data]
       /\ UNCHANGED <<field_vars, device, sessions, feeder,
                      owner_pc, dropped, last_api, play_result,
                      last_finite_ir, tweaks>>

Callback == \E frames \in FrameCounts : CallbackStep(frames) /\ UNCHANGED engine_vars

Next ==
    \/ SwapIr
    \/ SetPumpParams
    \/ SetVolume
    \/ PlayAlreadyPlaying
    \/ PlayNoDevice
    \/ PlaySpawn
    \/ PlayStarted
    \/ PlayStreamError
    \/ PlayUnsupported
    \/ PlayJoin
    \/ StopNotPlaying
    \/ StopSignal
    \/ StopJoin
    \/ DropPipeline
    \/ \E s \in Sessions : FeederStart(s)
    \/ \E s \in Sessions : FeederLoop(s)
    \/ \E s \in Sessions : FeederPush(s)
    \/ Callback

Spec == Init /\ [][Next]_vars
\* The engine alone, with a pipeline that is never started.
EngineInit == EngineNew /\ AloneNew /\ PipelineNew /\ device = [format |-> "F32", channels |-> 2, rate |-> 100]

SpecConv == EngineInit /\ [][EngineNext]_vars

\* ---------------------------------------------------------------- claims

\* C1: every process call returns exactly as many samples as its input holds,
\* whatever the IR length and the pending overlap.
C1_OutputLength == Len(last_output) = Len(last_input)

\* A call after an IR replacement whose pending overlap was longer than the
\* whole new convolution (the IR shrank), and one with an empty IR.
C1_Witness ==
    /\ ir_replaced
    /\ Len(last_input) >= 1
    /\ Len(last_ir) >= 1
    /\ Len(last_overlap) > Len(last_input) + Len(last_ir) - 1
    /\ Len(last_output) = Len(last_input)

\* C2: while the IR stays what it was at the first process call (length >= 1),
\* the concatenated outputs are the first Len(in_stream) samples of the
\* convolution of the whole input stream with that IR, however the stream was
\* split into blocks.
C2_BlocksEqualFullConvolution ==
    (~ir_replaced /\ Len(impulse_response) >= 1) =>
        out_stream = SubSeq(Convolve(in_stream, impulse_response), 1, Len(in_stream))

\* A stream of three one-sample blocks through a three-tap IR: every block
\* after the first received a tail.
C2_Witness ==
    /\ ~ir_replaced
    /\ Len(impulse_response) >= 3
    /\ Len(in_stream) = MaxStream
    /\ Len(last_input) = 1
    /\ Len(last_overlap) >= 2
    /\ out_stream = SubSeq(Convolve(in_stream, impulse_response), 1, Len(in_stream))

\* C3: the samples returned so far plus the samples pending in the overlap sum
\* to the sum over the calls of sum(input) * sum(IR snapshot): no pending tail
\* sample is dropped by a replacement of the IR.
C3_TailEnergyConserved == SumSeq(out_stream) + SumSeq(overlap) = expected_sum

\* The IR shrank so far that the old overlap outlived the new convolution, and
\* the remainder is still pending.
C3_Witness ==
    /\ ir_replaced
    /\ Len(last_input) >= 1
    /\ Len(last_ir) >= 1
    /\ Len(last_overlap) > Len(last_input) + Len(last_ir) - 1
    /\ overlap # <<>>
    /\ SumSeq(out_stream) + SumSeq(overlap) = expected_sum

\* The feeder threads that are spawned and have not returned.
LiveFeeders == {s \in Sessions : feeder[s].pc \notin {"none", "exited"}}

\* C4: the shared IR always equals the most recent swap_ir candidate whose
\* values were all finite (the initial [1] if there was none), and a swap_ir
\* call with a NaN or an infinity in the candidate changes no field of the
\* pipeline and nothing of the playback (threads, rings, sessions).
C4_SwapIrKeepsLastFinite ==
    /\ [](ir_handle = last_finite_ir)
    /\ [][(last_api' = "swap_ir_rejected" /\ tweaks' # tweaks)
            => UNCHANGED <<field_vars, feeder, ring, sessions, owner_pc>>]_vars

\* A finite two-tap candidate was stored and a later non-finite candidate was
\* discarded while the pipeline was playing.
C4_Witness ==
    /\ last_api = "swap_ir_rejected"
    /\ ir_handle = <<1, 2>>
    /\ playing

\* C5: once a play() call has failed for a device-level reason (no device, no
\* config, unsupported format, stream build failure, stream start failure)
\* and the owner is out of the call (it returned, or its panic has unwound
\* through the pipeline's drop), the pipeline is not playing and no feeder
\* thread is still running.
C5_FailedPlayLeavesNoProducer ==
    (/\ play_result \in {"no_device", "no_config", "unsupported",
                         "build_failed", "start_failed"}
     /\ owner_pc \in {"idle", "dropped"})
        => (~playing /\ LiveFeeders = {})

\* C6: a stop() that has returned leaves the pipeline not playing, without a
\* stream and a feeder handle, the running flag clear and no feeder thread
\* alive; and a stop() on a pipeline that is not playing changes no field.
C6_StopIdempotent ==
    /\ []((last_api = "stop" /\ owner_pc = "idle")
            => (/\ ~playing
                /\ stream = 0
                /\ feeder_handle = 0
                /\ ~feeder_running
                /\ LiveFeeders = {}))
    /\ [][(owner_pc = "idle" /\ ~playing /\ last_api' = "stop")
            => UNCHANGED <<field_vars, owner_pc, dropped, sessions, feeder, ring>>]_vars

\* A stop() has returned on a pipeline whose play() had succeeded: the feeder
\* it joined has returned.
C6_Witness ==
    /\ last_api = "stop"
    /\ owner_pc = "idle"
    /\ play_result = "ok"
    /\ ~playing
    /\ sessions = 1
    /\ feeder[1].pc = "exited"

\* C7: a play() call on a playing pipeline changes no field, spawns no
\* thread, creates no ring, and leaves every thread's state (overlap, pump
\* phase) and every ring's contents as they were.
C7_PlayWhilePlayingNoOp ==
    [][(play_result' = "while_playing" /\ play_result # "while_playing")
         => UNCHANGED <<field_vars, sessions, feeder, ring, owner_pc, tweaks>>]_vars

\* play() returned early on a playing pipeline whose ring held samples.
C7_Witness ==
    /\ play_result = "while_playing"
    /\ playing
    /\ stream # 0
    /\ ring[stream] # <<>>

\* C8: a new pipeline is not playing; playing becomes true only at the end
\* of a play() that spawned the feeder and started the stream; it becomes
\* false only inside stop() (also the drop's); and between API calls a
\* playing pipeline has exactly one live feeder thread and one stream.
C8_StateMachine ==
    /\ []((last_api = "new" => ~playing)
          /\ ((playing /\ owner_pc = "idle")
                => (/\ stream # 0
                    /\ stream = feeder_handle
                    /\ LiveFeeders = {stream})))
    /\ [][/\ (~playing /\ playing')
               => (owner_pc = "play_spawned" /\ play_result' = "ok" /\ stream' # 0)
          /\ (playing /\ ~playing')
               => (owner_pc = "stop_join" /\ last_api \in {"stop", "drop"})]_vars

\* The second session is playing: Stopped -> Playing -> Stopped -> Playing.
C8_Witness ==
    /\ playing
    /\ owner_pc = "idle"
    /\ sessions = 2
    /\ stream = 2

\* The value of an empty frame slot per format (0.0, 0, and mid-scale).
Silence(format) == IF format = "U16" THEN U16Max \div 2 ELSE 0

C10_RingBounded ==
    /\ [](\A s \in Sessions : Len(ring[s]) <= max_buffered + block_size - 1)
    /\ [][\A s \in Sessions :
            (feeder[s].pc = "loop" /\ feeder'[s].pc = "push")
                => Len(ring[s]) < max_buffered]_vars

\* A ring at the largest occupancy: the feeder saw one sample below the mark
\* and pushed a whole block.
C10_Witness ==
    \E s \in Sessions : Len(ring[s]) = max_buffered + block_size - 1

\* ------------------------------------------- one device, parameter updates
\* The pipeline on a float stereo device with set_pump_params as the only
\* parameter update, under the scheduling the threads get: a thread inside
\* play, stop or the feeder loop that can take its next step eventually takes
\* it, and the device keeps calling the callback while the stream exists.
FeedInit ==
    EngineNew /\ AloneNew /\ PipelineNew /\ device = [format |-> "F32", channels |-> 2, rate |-> 100]

FeedNext ==
    \/ SetPumpParams
    \/ PlaySpawn
    \/ PlayStarted
    \/ StopSignal
    \/ StopJoin
    \/ \E s \in Sessions : FeederStart(s)
    \/ \E s \in Sessions : FeederLoop(s)
    \/ \E s \in Sessions : FeederPush(s)
    \/ Callback

\* The three parameters a PumpSource currently holds.
ParamsOf(pump) ==
    [rpm |-> pump.rpm, num_valves |-> pump.num_valves, duty_cycle |-> pump.duty_cycle]

\* The feeder is at the top of its loop and the iteration will change its
\* state: it returns, refreshes changed parameters, or generates a block.
\* This implies ENABLED <<FeederLoop(s)>>_vars.
FeederLoopEnabled(s) ==
    /\ feeder[s].pc = "loop"
    /\ \/ ~feeder_running
       \/ ~RingFull(ring[s])
       \/ ParamsOf(feeder[s].pump) # pump_params

\* A step of the feeder loop that changes the thread's state; under FeedNext
\* only FeederLoop(s) takes feeder[s] out of "loop" or changes it there.
FeederLoopStep(s) == feeder[s].pc = "loop" /\ feeder'[s] # feeder[s]

\* Weak fairness of the threads' steps.  For the feeder loop it is written
\* out, with the enabling condition above in place of ENABLED: a loop
\* iteration that stays possible is eventually made.
FeedFairness ==
    /\ WF_vars(PlayStarted)
    /\ WF_vars(StopJoin)
    /\ \A s \in Sessions : WF_vars(FeederStart(s))
    /\ \A s \in Sessions :
         []<>(~FeederLoopEnabled(s)) \/ []<><<FeederLoopStep(s)>>_vars
    /\ \A s \in Sessions : WF_vars(FeederPush(s))
    /\ WF_vars(Callback)

SpecFeed == FeedInit /\ [][FeedNext]_vars /\ FeedFairness

\* C11: every feeder loop iteration that finds the running flag set leaves
\* the thread's PumpSource with exactly the shared parameters as they are
\* when the iteration begins, also when it then sleeps on a full ring, and
\* the block it goes on to push is the one generated with them; and under
\* fair scheduling a running feeder eventually holds a block generated with
\* the parameters the shared record has at that moment (unless the session
\* is told to end first).
C11_ParamsReachFeeder ==
    /\ [][\A s \in Sessions :
            (feeder[s].pc = "loop" /\ feeder_running /\ feeder'[s] # feeder[s])
              => /\ ParamsOf(feeder'[s].pump) = pump_params
                 /\ feeder'[s].pc = "push"
                      => \E raw \in {generate([feeder[s].pump EXCEPT
                                                   !.rpm = pump_params.rpm,
                                                   !.num_valves = pump_params.num_valves,
                                                   !.duty_cycle = pump_params.duty_cycle],
                                               block_size).output} :
                           feeder'[s].processed =
                               Process(feeder[s].overlap, ir_handle, raw).output]_vars
    /\ \A s \in Sessions :
         (feeder[s].pc = "loop" /\ feeder_running)
           ~> \/ (feeder[s].pc = "push" /\ ParamsOf(feeder[s].pump) = pump_params)
              \/ ~feeder_running

\* While playing, the last API call was a set_pump_params to 6000 rpm and the
\* feeder holds a block generated at 6000 rpm, after earlier blocks.
C11_Witness ==
    /\ playing
    /\ last_api = "set_pump_params"
    /\ pump_params.rpm = 6000
    /\ feeder[stream].pc = "push"
    /\ feeder[stream].pump.rpm = 6000
    /\ ring[stream] # <<>>

\* -------------------------------------------- the stand-alone PumpSource
\* Arguments offered to PumpSource::new and set_params: motor speeds
\* (reverse, slow, the default, and more than one revolution per sample at
\* PumpRate), valve counts, and duty cycles 0, 0.5 and 1.
PumpRate == 100
RpmChoices == {-3000, 2500, 3000, 9000}
ValveChoices == {0, 1, 3}
DutyChoices == 0..One

PumpInit ==
    /\ EngineNew
    /\ PipelineNew
    /\ device = [format |-> "F32", channels |-> 2, rate |-> 100]
    /\ vol_args = <<>>
    /\ AcousticDefault
    /\ IrcDefault
    /\ LockGrainNew
    /\ HistNew
    /\ \E rpm \in RpmChoices : \E nv \in ValveChoices : \E dc \in DutyChoices :
         PumpStart(rpm, nv, dc, PumpRate)

\* pump.set_params(rpm, num_valves, duty_cycle)
PumpSetParams ==
    \E rpm \in RpmChoices : \E nv \in ValveChoices : \E dc \in DutyChoices :
        /\ pump_ops < MaxPumpOps
        /\ pump_src' = set_params(pump_src, rpm, nv, dc)
        /\ pump_prev' = pump_src
        /\ pump_op' = "set_params"
        /\ pump_ops' = pump_ops + 1
        /\ UNCHANGED <<pump_count, pump_out>>
        /\ UNCHANGED <<conv_vars, vol_vars, acoustic_vars, irc_vars, lg_vars, hist_vars,
                       pipe_vars>>

\* pump.generate(count)
PumpGenerate ==
    \E count \in 0..MaxCount :
    \E r \in {generate(pump_src, count)} :
        /\ pump_ops < MaxPumpOps
        /\ pump_src' = r.pump
        /\ pump_out' = r.output
        /\ pump_count' = count
        /\ pump_prev' = pump_src
        /\ pump_op' = "generate"
        /\ pump_ops' = pump_ops + 1
        /\ UNCHANGED <<conv_vars, vol_vars, acoustic_vars, irc_vars, lg_vars, hist_vars,
                       pipe_vars>>

PumpNext == PumpSetParams \/ PumpGenerate

SpecPump == PumpInit /\ [][PumpNext]_vars

\* C12: a set_params call leaves the phase accumulator and the sample rate
\* as they were and stores exactly the three values it was given; the phase
\* changes only in generate calls.
C12_SetParamsKeepsPhase ==
    /\ [](pump_op = "set_params"
            => /\ pump_src.phase = pump_prev.phase
               /\ pump_src.sample_rate = pump_prev.sample_rate
               /\ pump_src.rpm \in RpmChoices
               /\ pump_src.num_valves \in ValveChoices
               /\ pump_src.duty_cycle \in DutyChoices)
    /\ [][pump_src'.phase # pump_src.phase => pump_op' = "generate"]_vars

\* The parameters were changed in the middle of a revolution: the phase is
\* not 0 and the speed is not the one the phase was reached with.
C12_Witness ==
    /\ pump_op = "set_params"
    /\ pump_src.phase # 0
    /\ pump_src.rpm # pump_prev.rpm
    /\ pump_src.num_valves # pump_prev.num_valves
    /\ pump_src.duty_cycle # pump_prev.duty_cycle

\* C16: after any sequence of generate and set_params calls the phase
\* accumulator is at least 0 and below 2 pi.
C16_PhaseWrapped == 0 <= pump_src.phase /\ pump_src.phase < TwoPi

\* C17: generate(count) returns exactly count samples, each at least 0 and at
\* most num_valves (num_valves * One in fixed point; not a NaN), for every
\* rpm, valve count and duty cycle in [0, 1], also after parameter changes.
C17_SamplesBounded ==
    pump_op = "generate"
      => /\ Len(pump_out) = pump_count
         /\ \A i \in 1..Len(pump_out) :
              /\ is_finite(pump_out[i])
              /\ 0 <= pump_out[i]
              /\ pump_out[i] <= pump_prev.num_valves * One

\* ---- the volume scalar on its own (test_pipeline_volume) ----

\* Arguments handed to set_volume: below, inside and above [0, 1], and the
\* non-finite values of an f64.
VolumeInputs == ((-1)..(One + 1)) \cup {NaN, PosInf, NegInf}

VolInit ==
    /\ EngineNew
    /\ AloneNew
    /\ PipelineNew
    /\ device = [format |-> "F32", channels |-> 2, rate |-> 100]

\* pipeline.set_volume(vol) on a pipeline that is not playing
SetVolumeAlone ==
    \E vol \in VolumeInputs :
        /\ Len(vol_args) < MaxVolCalls
        /\ volume' = clamp(vol)
        /\ vol_args' = Append(vol_args, vol)
        /\ last_api' = "set_volume"
        /\ UNCHANGED <<conv_vars, pump_vars, acoustic_vars, irc_vars, lg_vars, hist_vars,
                       playing, ir_handle,
                       pump_params, sample_rate, stream, feeder_handle,
                       feeder_running, device, sessions, feeder, ring, owner_pc,
                       dropped, cb, play_result, last_finite_ir, tweaks>>

VolNext == SetVolumeAlone

SpecVol == VolInit /\ [][VolNext]_vars

\* v < 0.0 and v > 1.0 as an f64 compares: false for a NaN.
LessThanZero(v) == v = NegInf \/ (is_finite(v) /\ v < 0)
MoreThanOne(v) == v = PosInf \/ (is_finite(v) /\ v > One)

\* C13: the volume is within [0, 1] in every reachable state: it starts at
\* 0.5, and after set_volume(v) with any argument v it is 0 if v < 0, 1 if
\* v > 1, and v otherwise.
C13_VolumeClamped ==
    /\ is_finite(volume) /\ 0 <= volume /\ volume <= One
    /\ vol_args = <<>> => volume = One \div 2
    /\ vol_args # <<>> =>
         LET v == vol_args[Len(vol_args)]
         IN  volume = IF LessThanZero(v) THEN 0
                      ELSE IF MoreThanOne(v) THEN One ELSE v

\* The same with the not-a-number argument left out: the part of C13 the code
\* does keep.
C13_FiniteArgsClamped ==
    (\A i \in 1..Len(vol_args) : vol_args[i] # NaN) => C13_VolumeClamped

\* ---- the engine's special cases (under SpecConv) ----

\* C14: a process call that finds no pending overlap and a single-sample IR
\* [k] returns k * x[i] at every index i and leaves the overlap empty, for
\* every block of every sequence of blocks; with k = 1, the IR a new engine
\* starts with, the output is the input.
C14_ScalarIrScales ==
    (calls /\ Len(last_ir) = 1 /\ last_overlap = <<>>) =>
        /\ last_output = [i \in 1..Len(last_input) |-> last_ir[1] * last_input[i]]
        /\ overlap = <<>>
        /\ last_ir = <<1>> => last_output = last_input

\* The second block of a stream through the gain [2].
C14_Witness ==
    /\ calls
    /\ last_ir = <<2>>
    /\ last_overlap = <<>>
    /\ Len(in_stream) > Len(last_input)
    /\ Len(last_input) >= 1
    /\ last_output = [i \in 1..Len(last_input) |-> 2 * last_input[i]]

\* C15: in the degenerate case (the IR snapshot is empty, or the input is
\* empty) process returns exactly input.len() zeros, whatever overlap is
\* pending from earlier calls.
C15_DegenerateZeros ==
    (calls /\ (last_ir = <<>> \/ last_input = <<>>)) =>
        last_output = [i \in 1..Len(last_input) |-> 0]

\* A block through an empty IR while a tail of an earlier block was pending.
C15_Witness ==
    /\ calls
    /\ last_ir = <<>>
    /\ Len(last_input) >= 1
    /\ last_overlap # <<>>
    /\ \E i \in 1..Len(last_overlap) : last_overlap[i] # 0
    /\ last_output = [i \in 1..Len(last_input) |-> 0]

\* ---- the acoustics on their own (compute, and the unit tests) ----

\* Geometries handed to from_params: the default, one with a shorter chamber
\* and an outlet that differs from the inlet, and one warmer.
ParamChoices ==
    {DefaultParams,
     [DefaultParams EXCEPT !.chamber_length = 6, !.outlet_length = 1,
                           !.outlet_diameter = 2],
     [DefaultParams EXCEPT !.chamber_length = 5, !.chamber_diameter = 2,
                           !.temperature = 40]}

\* Ducts of the custom mufflers: a pipe and a chamber.
DuctChoices == {[length |-> 3, diameter |-> 1], [length |-> 5, diameter |-> 4]}

\* Impedances handed to Muffler::new: the pipe's, or mismatched.
CustomImpedances == {<<1024, 1024>>, <<1024, 256>>}

\* Sample rates and, for total_transfer_matrix, angular frequencies.
RateChoices == {1, 2, 8}
OmegaChoices == {Ratio(0, 1), Ratio(4, 1), Ratio(8, 3), Ratio(12, 1)}

AcInit ==
    /\ EngineNew
    /\ PumpDefault
    /\ vol_args = <<>>
    /\ IrcDefault
    /\ LockGrainNew
    /\ HistNew
    /\ PipelineNew
    /\ device = [format |-> "F32", channels |-> 2, rate |-> 100]
    /\ \E fft_size \in 0..MaxFft : \E rate \in RateChoices :
         \/ \E params \in ParamChoices :
               AcousticStart(from_params(params), params, fft_size, rate,
                             params.temperature)
         \/ \E n \in 0..MaxElements : \E elements \in [1..n -> DuctChoices] :
            \E z \in CustomImpedances : \E temperature \in {20, 40} :
               AcousticStart(Muffler_new(elements, z[1], z[2]), NoParams,
                             fft_size, rate, temperature)

\* muffler.total_transfer_matrix(omega, c, rho)
AcTotal ==
    \E omega \in OmegaChoices :
        /\ ac_omega' = omega
        /\ ac_total' = [called |-> TRUE,
                        value |-> total_transfer_matrix(ac_muffler, omega,
                                                        ac_in.c, ac_in.rho)]
        /\ UNCHANGED <<ac_muffler, ac_in, ac_sweep, conv_vars, pump_vars,
                       vol_vars, irc_vars, lg_vars, hist_vars, pipe_vars>>

\* sweep(&muffler, fft_size, sample_rate, c, rho)
AcSweep ==
    /\ ~ac_sweep.called
    /\ ac_sweep' = [called |-> TRUE,
                    value |-> sweep(ac_muffler, ac_in.fft_size, ac_in.rate,
                                    ac_in.c, ac_in.rho)]
    /\ UNCHANGED <<ac_muffler, ac_in, ac_omega, ac_total, conv_vars, pump_vars,
                   vol_vars, irc_vars, lg_vars, hist_vars, pipe_vars>>

AcNext == AcTotal \/ AcSweep

SpecAcoustic == AcInit /\ [][AcNext]_vars

\* The 2x2 complex matrix product x * y, and the product of a sequence of
\* matrices taken from the left: ((identity * m1) * m2) * ... * mn.
MatMul(x, y) ==
    [a |-> CAdd(CMul(x.a, y.a), CMul(x.b, y.c)),
     b |-> CAdd(CMul(x.a, y.b), CMul(x.b, y.d)),
     c |-> CAdd(CMul(x.c, y.a), CMul(x.d, y.c)),
     d |-> CAdd(CMul(x.c, y.b), CMul(x.d, y.d))]
RECURSIVE OrderedProduct(_)
OrderedProduct(ms) ==
    IF ms = <<>> THEN identity
    ELSE MatMul(OrderedProduct(SubSeq(ms, 1, Len(ms) - 1)), ms[Len(ms)])

\* The matrix of test_identity_chain: 1 + 0.5j, j, -j, 1 + 0.5j.
TestMatrix ==
    [a |-> Complex(MUnit, MUnit \div 2), b |-> Complex(0, MUnit),
     c |-> Complex(0, -MUnit), d |-> Complex(MUnit, MUnit \div 2)]

\* C18: total_transfer_matrix returns the ordered matrix product identity *
\* T(e1) * ... * T(en) of the element matrices in stored order (for
\* from_params: inlet, chamber, outlet, source side first); the empty chain
\* gives the identity, and chain(identity, M) = M.
C18_OrderedProduct ==
    /\ ac_in.params # NoParams =>
          ac_muffler.elements =
              << [length |-> ac_in.params.inlet_length,
                  diameter |-> ac_in.params.inlet_diameter],
                 [length |-> ac_in.params.chamber_length,
                  diameter |-> ac_in.params.chamber_diameter],
                 [length |-> ac_in.params.outlet_length,
                  diameter |-> ac_in.params.outlet_diameter] >>
    /\ chain(identity, TestMatrix) = TestMatrix
    /\ ac_total.called =>
          /\ ac_total.value =
                OrderedProduct([i \in 1..Len(ac_muffler.elements) |->
                    transfer_matrix(ac_muffler.elements[i], ac_omega,
                                    ac_in.c, ac_in.rho)])
          /\ ac_muffler.elements = <<>> => ac_total.value = identity
          /\ chain(identity, ac_total.value) = ac_total.value

\* Inlet, chamber and outlet of from_params at a frequency where the order
\* matters: the product taken from the outlet side is a different matrix.
C18_Witness ==
    /\ ac_total.called
    /\ ac_in.params # NoParams
    /\ LET t(i) == transfer_matrix(ac_muffler.elements[i], ac_omega,
                                   ac_in.c, ac_in.rho)
       IN /\ ac_total.value = MatMul(MatMul(t(1), t(2)), t(3))
          /\ ac_total.value # MatMul(MatMul(t(3), t(2)), t(1))

\* x = y for two fractions with non-zero denominators
RatioEq(x, y) == x.den # 0 /\ y.den # 0 /\ x.num * y.den = y.num * x.den

\* The three sequences have fft_size / 2 + 1 entries each, and bin i is at
\* i * sample_rate / fft_size: the first at 0 Hz, neighbours one bin width
\* apart.
EvenlySpacedBins ==
    LET r == ac_sweep.value
        n == ac_in.fft_size \div 2 + 1
    IN /\ Len(r.frequencies) = n /\ Len(r.tl) = n /\ Len(r.hf) = n
       /\ \A b \in 1..n :
            RatioEq(r.frequencies[b], Ratio((b - 1) * ac_in.rate, ac_in.fft_size))
       /\ RatioEq(r.frequencies[1], Ratio(0, 1))
       /\ \A b \in 1..(n - 1) :
            LET lo == r.frequencies[b]
                hi == r.frequencies[b + 1]
            IN RatioEq(Ratio(hi.num * lo.den - lo.num * hi.den, hi.den * lo.den),
                       Ratio(ac_in.rate, ac_in.fft_size))

\* The last bin is at sample_rate / 2.
LastBinIsNyquist ==
    LET r == ac_sweep.value
    IN RatioEq(r.frequencies[Len(r.frequencies)], Ratio(ac_in.rate, 2))

C20_DcBinForced ==
    ac_sweep.called =>
        LET r == ac_sweep.value
        IN \A b \in 1..Len(r.frequencies) :
             LET f == r.frequencies[b]
                 omega == Ratio(4 * f.num, f.den)
             IN IF f.den > 0 /\ f.num < f.den
                THEN r.tl[b] = 0 /\ r.hf[b] = Complex(MUnit, 0)
                ELSE /\ r.tl[b] = Muffler_transmission_loss(ac_muffler, omega,
                                                            ac_in.c, ac_in.rho)
                     /\ r.hf[b] = Muffler_pressure_transfer(ac_muffler, omega,
                                                            ac_in.c, ac_in.rho)

\* A sweep with a bin strictly between 0 and 1 Hz where the muffler itself
\* would not give TL = 0 and H = 1, and a bin at or above 1 Hz where the
\* muffler attenuates.
C20_Witness ==
    /\ ac_sweep.called
    /\ LET r == ac_sweep.value
       IN /\ \E b \in 1..Len(r.frequencies) :
               LET f == r.frequencies[b]
               IN /\ f.den > 0 /\ 0 < f.num /\ f.num < f.den
                  /\ r.tl[b] = 0 /\ r.hf[b] = Complex(MUnit, 0)
                  /\ Muffler_transmission_loss(ac_muffler, Ratio(4 * f.num, f.den),
                                               ac_in.c, ac_in.rho) # 0
                  /\ Muffler_pressure_transfer(ac_muffler, Ratio(4 * f.num, f.den),
                                               ac_in.c, ac_in.rho) # Complex(MUnit, 0)
          /\ \E b \in 1..Len(r.frequencies) :
               LET f == r.frequencies[b]
               IN /\ f.den > 0 /\ f.num >= f.den
                  /\ is_finite(r.tl[b]) /\ r.tl[b] > 0
                  /\ IsNum(r.hf[b]) /\ r.hf[b] # Complex(MUnit, 0)

\* ---- the overlap across blocks and IR replacements (under SpecConv) ----

\* C24: with a fixed IR of length K >= 1, after every process call with a
\* non-empty input the overlap holds exactly K - 1 samples (none when K = 1),
\* for every block length L >= 1, L < K - 1 included.
C24_SteadyOverlapLength ==
    (calls /\ ~ir_replaced /\ last_input # <<>> /\ Len(last_ir) >= 1) =>
        Len(overlap) = Len(last_ir) - 1

\* A second one-sample block through a fixed four-tap IR: the block is
\* shorter than the tail it found and the tail it leaves.
C24_Witness ==
    /\ calls /\ ~ir_replaced
    /\ Len(last_ir) = MaxIrLen
    /\ Len(last_input) = 1
    /\ Len(last_input) < Len(last_ir) - 1
    /\ Len(last_overlap) = Len(last_ir) - 1
    /\ Len(overlap) = Len(last_ir) - 1

\* C25: for any sequence of process calls interleaved with IR replacements
\* the concatenated output equals, sample for sample, the sum over the blocks
\* of the block's input convolved with the IR snapshot it used, placed at
\* the block's start offset in the stream.
C25_TailKeepsStreamPosition ==
    out_stream = [n \in 1..Len(in_stream) |->
                     IF n <= Len(expected_stream) THEN expected_stream[n] ELSE 0]

\* ---- impulse_response::compute on its own ----

\* Transform sizes whose twiddle factors are whole twenty-fourths of a turn.
FftSizes == {1, 2, 3, 4, 6, 8}

\* Values of a bin: unity, a bin with an imaginary part, not a number.
BinValues == {Complex(MUnit, 0), Complex(MUnit \div 2, MUnit), CNaN}

\* The most bins a transfer function handed to compute has.
MaxBins == 5

IrcInit ==
    /\ EngineNew
    /\ PumpDefault
    /\ vol_args = <<>>
    /\ AcousticDefault
    /\ LockGrainNew
    /\ HistNew
    /\ PipelineNew
    /\ device = [format |-> "F32", channels |-> 2, rate |-> 100]
    /\ \E fft_size \in FftSizes : \E n \in 0..MaxBins :
       \E transfer_function \in [1..n -> BinValues] :
          IrcStart(transfer_function, fft_size)

\* impulse_response::compute(&transfer_function, fft_size)
IrcCompute ==
    /\ ir_out.status = "none"
    /\ ir_out' = compute(tf_in, fft_in)
    /\ UNCHANGED <<tf_in, fft_in, conv_vars, pump_vars, vol_vars,
                   acoustic_vars, lg_vars, hist_vars, pipe_vars>>

IrcNext == IrcCompute

SpecIrc == IrcInit /\ [][IrcNext]_vars

\* Every bin of the spectrum is a number.
FiniteSpectrum == \A k \in 1..Len(tf_in) : IsNum(tf_in[k])

\* C21: compute returns exactly fft_size/2 samples when H has fft_size/2 + 1
\* bins, and for any other length of H it aborts on the assertion before any
\* transform and returns no impulse response.
C21_LengthContract ==
    ir_out.status # "none" =>
        IF Len(tf_in) = fft_in \div 2 + 1
        THEN /\ ir_out.status = "returned"
             /\ Len(ir_out.ir) = fft_in \div 2
        ELSE /\ ir_out.status = "panicked"
             /\ ~ir_out.transformed
             /\ ir_out.ir = <<>>

\* A call with the right number of bins for an odd size, which returned.
C21_Witness ==
    /\ ir_out.status = "returned"
    /\ fft_in = 3
    /\ Len(tf_in) = 2
    /\ Len(ir_out.ir) = 1

\* A call with one bin too many, which aborted.
C21_WitnessAbort ==
    /\ ir_out.status = "panicked"
    /\ Len(tf_in) = fft_in \div 2 + 2

C28_OneProducer ==
    /\ [](Cardinality(LiveFeeders) <= 1)
    /\ [][/\ sessions' # sessions
               => (~playing /\ LiveFeeders = {} /\ LiveFeeders' = {sessions'})
          /\ (playing /\ ~playing') => LiveFeeders' = {}]_vars

\* The second session runs: its feeder is alive and the first session's
\* feeder has returned.
C28_Witness ==
    /\ sessions = 2
    /\ playing
    /\ feeder[1].pc = "exited"
    /\ feeder[2].pc = "push"
    /\ LiveFeeders = {2}

\* C29: each play() that gets as far as a session starts it from fresh
\* state: a new empty ring, a feeder whose overlap is empty and whose pump
\* phase is 0; the shared IR, pump parameters and volume are kept by play and
\* stop and are the ones the new session uses (the pump is built from the
\* shared parameters, the first block is convolved with the shared IR, the
\* callback scales by the shared volume).
C29_FreshSession ==
    /\ [](\A s \in Sessions :
            feeder[s].pc \in {"none", "start"} => ring[s] = <<>>)
    /\ [](cb.called => cb.vol = volume)
    /\ [][/\ sessions' # sessions
               => /\ ring'[sessions'] = <<>>
                  /\ feeder'[sessions'].pc = "start"
          /\ (owner_pc' # owner_pc \/ playing' # playing \/ sessions' # sessions)
               => UNCHANGED <<ir_handle, pump_params, volume>>
          /\ \A s \in Sessions :
               /\ (feeder[s].pc = "start" /\ feeder'[s].pc = "loop")
                     => /\ feeder'[s].overlap = <<>>
                        /\ feeder'[s].pump.phase = 0
                        /\ ParamsOf(feeder'[s].pump) = pump_params
                        /\ feeder'[s].pump.sample_rate = device.rate
                        /\ ring[s] = <<>>
               /\ (feeder[s].pc = "loop" /\ feeder'[s].pc = "push" /\ ring[s] = <<>>
                      /\ feeder[s].overlap = <<>> /\ feeder[s].pump.phase = 0)
                     => \E fresh \in {PumpNew(pump_params.rpm, pump_params.num_valves,
                                               pump_params.duty_cycle, device.rate)} :
                        \E raw \in {generate(fresh, block_size).output} :
                          feeder'[s].processed = Process(<<>>, ir_handle, raw).output]_vars

\* The second session has started with an IR and pump parameters that were
\* set through the API: its feeder is at the top of its first iteration.
C29_Witness ==
    /\ sessions = 2
    /\ playing
    /\ ir_handle = <<1, 2>>
    /\ pump_params.rpm = 6000
    /\ feeder[2].pc = "loop"
    /\ feeder[2].overlap = <<>>
    /\ feeder[2].pump.phase = 0
    /\ feeder[2].pump.rpm = 6000
    /\ ring[2] = <<>>

\* ---- one session at the grain of the mutexes ----
\* The owner thread, the feeder thread and the output callback, each stepping
\* from one lock() to the end of the guard's scope.  A lock() on a mutex that
\* is held waits.

\* Everything outside this view of the pipeline.
not_lg_vars == <<conv_vars, pump_vars, vol_vars, acoustic_vars, irc_vars, hist_vars,
                 pipe_vars>>

\* What the steps that only take or give back a lock leave alone.
lg_data == <<lg_ir, lg_arg, lg_returned, lg_snapshot, lg_pump, lg_raw,
             lg_overlap, lg_processed, lg_ring, lg_running, lg_stream>>

\* Impulse responses handed to swap_ir.
LgIrCandidates == {<<1>>, <<1, 2>>, <<2, 1>>}

\* The Vec in the middle of an assignment: the first tap is the new one, the
\* others still hold what was there (0 where there was nothing).
HalfAssigned(old, new) ==
    [i \in 1..Len(new) |->
        IF i = 1 THEN new[1] ELSE IF i <= Len(old) THEN old[i] ELSE 0]

At(c, pc) == lg_pc[c] = pc
Goto(c, pc) == lg_pc' = [lg_pc EXCEPT ![c] = pc]

\* mutex.lock() returning, and the guard going out of scope
Lock(c, l) == lg_held[l] = "none" /\ lg_held' = [lg_held EXCEPT ![l] = c]
Unlock(c, l) == lg_held' = [lg_held EXCEPT ![l] = IF @ = c THEN "none" ELSE @]

LockInit ==
    /\ EngineNew
    /\ PumpDefault
    /\ vol_args = <<>>
    /\ AcousticDefault
    /\ IrcDefault
    /\ LockGrainNew
    /\ HistNew
    /\ PipelineNew
    /\ device = [format |-> "F32", channels |-> 2, rate |-> 100]

\* swap_ir: the call with a finite IR, the lock, the assignment (in two
\* parts), and the return that drops the guard.
LgSwapIr ==
    \/ \E ir \in LgIrCandidates :
         /\ At("owner", "idle")
         /\ Goto("owner", "swap_lock")
         /\ lg_arg' = ir
         /\ UNCHANGED <<lg_held, lg_ir, lg_returned, lg_snapshot, lg_pump, lg_raw,
                        lg_overlap, lg_processed, lg_ring, lg_running, lg_stream>>
    \/ /\ At("owner", "swap_lock")
       /\ Lock("owner", "ir")
       /\ Goto("owner", "swap_assign")
       /\ UNCHANGED lg_data
    \/ /\ At("owner", "swap_assign")
       /\ lg_ir' = HalfAssigned(lg_ir, lg_arg)
       /\ Goto("owner", "swap_assigned")
       /\ UNCHANGED <<lg_held, lg_arg, lg_returned, lg_snapshot, lg_pump, lg_raw,
                      lg_overlap, lg_processed, lg_ring, lg_running, lg_stream>>
    \/ /\ At("owner", "swap_assigned")
       /\ lg_ir' = lg_arg
       /\ lg_returned' = lg_arg
       /\ Unlock("owner", "ir")
       /\ Goto("owner", "idle")
       /\ UNCHANGED <<lg_arg, lg_snapshot, lg_pump, lg_raw, lg_overlap,
                      lg_processed, lg_ring, lg_running, lg_stream>>

\* set_pump_params: the call, the lock, the three assignments and the return.
LgSetPumpParams ==
    \/ /\ At("owner", "idle")
       /\ Goto("owner", "pump_lock")
       /\ UNCHANGED <<lg_held, lg_data>>
    \/ /\ At("owner", "pump_lock")
       /\ Lock("owner", "pump")
       /\ Goto("owner", "pump_assign")
       /\ UNCHANGED lg_data
    \/ /\ At("owner", "pump_assign")
       /\ Unlock("owner", "pump")
       /\ Goto("owner", "idle")
       /\ UNCHANGED lg_data

\* set_volume: the call, the lock, the assignment and the return.
LgSetVolume ==
    \/ /\ At("owner", "idle")
       /\ Goto("owner", "volume_lock")
       /\ UNCHANGED <<lg_held, lg_data>>
    \/ /\ At("owner", "volume_lock")
       /\ Lock("owner", "volume")
       /\ Goto("owner", "volume_assign")
       /\ UNCHANGED lg_data
    \/ /\ At("owner", "volume_assign")
       /\ Unlock("owner", "volume")
       /\ Goto("owner", "idle")
       /\ UNCHANGED lg_data

\* play(): a new ring, the running flag, the spawn, and the stream.  It takes
\* no mutex.
LgPlay ==
    /\ At("owner", "idle")
    /\ At("producer", "none")
    /\ ~lg_stream
    /\ lg_running' = TRUE
    /\ lg_stream' = TRUE
    /\ lg_ring' = 0
    /\ lg_overlap' = <<>>
    /\ lg_processed' = <<>>
    /\ lg_raw' = <<>>
    /\ lg_pc' = [lg_pc EXCEPT !["producer"] = "init_lock"]
    /\ UNCHANGED <<lg_held, lg_ir, lg_arg, lg_returned, lg_snapshot, lg_pump>>

\* stop(): the running flag is cleared and the stream dropped, then the join.
\* It takes no mutex.
LgStop ==
    \/ /\ At("owner", "idle")
       /\ lg_stream
       /\ lg_running' = FALSE
       /\ lg_stream' = FALSE
       /\ Goto("owner", "join")
       /\ UNCHANGED <<lg_held, lg_ir, lg_arg, lg_returned, lg_snapshot, lg_pump,
                      lg_raw, lg_overlap, lg_processed, lg_ring>>
    \/ /\ At("owner", "join")
       /\ At("producer", "exited")
       /\ lg_pc' = [lg_pc EXCEPT !["owner"] = "idle", !["producer"] = "none"]
       /\ UNCHANGED <<lg_held, lg_data>>

\* The feeder thread before its loop: the pump parameters are cloned under
\* their lock and the PumpSource is built.
ProducerInit ==
    \/ /\ At("producer", "init_lock")
       /\ Lock("producer", "pump")
       /\ Goto("producer", "init")
       /\ UNCHANGED lg_data
    \/ /\ At("producer", "init")
       /\ Unlock("producer", "pump")
       /\ lg_pump' = PumpNew(3000, 3, One \div 2, 100)
       /\ Goto("producer", "while")
       /\ UNCHANGED <<lg_ir, lg_arg, lg_returned, lg_snapshot, lg_raw, lg_overlap,
                      lg_processed, lg_ring, lg_running, lg_stream>>

\* while feeder_running.load()
ProducerWhile ==
    /\ At("producer", "while")
    /\ Goto("producer", IF lg_running THEN "refresh_lock" ELSE "exited")
    /\ UNCHANGED <<lg_held, lg_data>>

\* { let p = feeder_pump.lock(); pump.set_params(..) }
ProducerRefresh ==
    \/ /\ At("producer", "refresh_lock")
       /\ Lock("producer", "pump")
       /\ Goto("producer", "refresh")
       /\ UNCHANGED lg_data
    \/ /\ At("producer", "refresh")
       /\ Unlock("producer", "pump")
       /\ Goto("producer", "check_lock")
       /\ UNCHANGED lg_data

\* { let buf = feeder_ring.lock(); if buf.len() >= max_buffered { drop(buf);
\* sleep; continue } }
ProducerCheck ==
    \/ /\ At("producer", "check_lock")
       /\ Lock("producer", "ring")
       /\ Goto("producer", "check")
       /\ UNCHANGED lg_data
    \/ /\ At("producer", "check")
       /\ Unlock("producer", "ring")
       /\ Goto("producer", IF lg_ring >= max_buffered THEN "sleep" ELSE "generate")
       /\ UNCHANGED lg_data
    \/ /\ At("producer", "sleep")
       /\ Goto("producer", "while")
       /\ UNCHANGED <<lg_held, lg_data>>

\* let raw = pump.generate(block_size)
ProducerGenerate ==
    /\ At("producer", "generate")
    /\ \E r \in {generate(lg_pump, block_size)} :
         /\ lg_raw' = r.output
         /\ lg_pump' = r.pump
    /\ Goto("producer", "process_lock")
    /\ UNCHANGED <<lg_held, lg_ir, lg_arg, lg_returned, lg_snapshot, lg_overlap,
                   lg_processed, lg_ring, lg_running, lg_stream>>

\* A process() that reads the IR without taking its lock.
ProducerSkipsIrLock ==
    /\ lg_pc["producer"] = "process_lock"
    /\ lg_pc' = [lg_pc EXCEPT !["producer"] = "snapshot"]
    /\ UNCHANGED <<lg_held, lg_data>>

\* process(): self.impulse_response.lock()
ProducerLockIr ==
    /\ At("producer", "process_lock")
    /\ Lock("producer", "ir")
    /\ Goto("producer", "snapshot")
    /\ UNCHANGED lg_data

\* process(): .clone(), and the guard is dropped at the end of the statement
ProducerSnapshot ==
    /\ At("producer", "snapshot")
    /\ lg_snapshot' = lg_ir
    /\ Unlock("producer", "ir")
    /\ Goto("producer", "convolve")
    /\ UNCHANGED <<lg_ir, lg_arg, lg_returned, lg_pump, lg_raw, lg_overlap,
                   lg_processed, lg_ring, lg_running, lg_stream>>

\* process(): the convolution, the overlap-add and the split, on the clone
ProducerConvolve ==
    /\ At("producer", "convolve")
    /\ \E r \in {Process(lg_overlap, lg_snapshot, lg_raw)} :
         /\ lg_processed' = r.output
         /\ lg_overlap' = r.overlap
    /\ Goto("producer", "push_lock")
    /\ UNCHANGED <<lg_held, lg_ir, lg_arg, lg_returned, lg_snapshot, lg_pump,
                   lg_raw, lg_ring, lg_running, lg_stream>>

\* { let mut buf = feeder_ring.lock(); for &s in &processed { push_back } }
ProducerPush ==
    \/ /\ At("producer", "push_lock")
       /\ Lock("producer", "ring")
       /\ Goto("producer", "push")
       /\ UNCHANGED lg_data
    \/ /\ At("producer", "push")
       /\ lg_ring' = lg_ring + Len(lg_processed)
       /\ Unlock("producer", "ring")
       /\ Goto("producer", "while")
       /\ UNCHANGED <<lg_ir, lg_arg, lg_returned, lg_snapshot, lg_pump, lg_raw,
                      lg_overlap, lg_processed, lg_running, lg_stream>>

\* The device invokes the callback.
CbInvoke ==
    /\ At("callback", "idle")
    /\ lg_stream
    /\ Goto("callback", "vol_lock")
    /\ UNCHANGED <<lg_held, lg_data>>

\* A callback that keeps the volume guard while it fills the frames.
CbVolumeGuardKept ==
    \/ /\ lg_pc["callback"] = "vol_lock"
       /\ lg_held["volume"] = "none"
       /\ lg_held' = [lg_held EXCEPT !["volume"] = "callback"]
       /\ lg_pc' = [lg_pc EXCEPT !["callback"] = "vol_read"]
       /\ UNCHANGED lg_data
    \/ /\ lg_pc["callback"] = "vol_read"
       /\ lg_pc' = [lg_pc EXCEPT !["callback"] = "ring_lock"]
       /\ UNCHANGED <<lg_held, lg_data>>

\* let vol = *cb_volume.lock(): the guard is a temporary of the statement
CbVolume ==
    \/ /\ At("callback", "vol_lock")
       /\ Lock("callback", "volume")
       /\ Goto("callback", "vol_read")
       /\ UNCHANGED lg_data
    \/ /\ At("callback", "vol_read")
       /\ Unlock("callback", "volume")
       /\ Goto("callback", "ring_lock")
       /\ UNCHANGED lg_data

\* let mut buf = cb_ring.lock(); the frames are filled; the callback returns
CbFill ==
    \/ /\ At("callback", "ring_lock")
       /\ Lock("callback", "ring")
       /\ Goto("callback", "fill")
       /\ UNCHANGED lg_data
    \/ \E frames \in FrameCounts :
         /\ At("callback", "fill")
         /\ lg_ring' = Max(0, lg_ring - frames)
         /\ Unlock("callback", "ring")
         /\ Goto("callback", "idle")
         /\ UNCHANGED <<lg_ir, lg_arg, lg_returned, lg_snapshot, lg_pump, lg_raw,
                        lg_overlap, lg_processed, lg_running, lg_stream>>

LockNext ==
    /\ \/ LgSwapIr
       \/ LgSetPumpParams
       \/ LgSetVolume
       \/ LgPlay
       \/ LgStop
       \/ ProducerInit
       \/ ProducerWhile
       \/ ProducerRefresh
       \/ ProducerCheck
       \/ ProducerGenerate
       \/ ProducerLockIr
       \/ ProducerSnapshot
       \/ ProducerConvolve
       \/ ProducerPush
       \/ CbInvoke
       \/ CbVolume
       \/ CbFill
    /\ UNCHANGED not_lg_vars

SpecLocks == LockInit /\ [][LockNext]_vars

\* The mutexes a context holds, and the one it is waiting for (if any).
HeldBy(c) == {l \in Locks : lg_held[l] = c}
WaitsFor(c) ==
    CASE lg_pc[c] \in {"swap_lock", "process_lock"} -> {"ir"}
      [] lg_pc[c] \in {"pump_lock", "init_lock", "refresh_lock"} -> {"pump"}
      [] lg_pc[c] \in {"volume_lock", "vol_lock"} -> {"volume"}
      [] lg_pc[c] \in {"check_lock", "push_lock", "ring_lock"} -> {"ring"}
      [] OTHER -> {}

\* C23: no context ever holds two of the four locks at the same time; the
\* feeder holds none while it generates, convolves or sleeps; the callback
\* finds the ring lock taken only during the feeder's occupancy check or
\* block push; and no deadlock is reachable: whoever holds a lock is waiting
\* for nothing (no lock, no join), so it goes on to release it.
C23_LocksIndependent ==
    /\ \A c \in Contexts : Cardinality(HeldBy(c)) <= 1
    /\ lg_pc["producer"] \in {"generate", "convolve", "sleep", "while", "exited", "none"}
         => HeldBy("producer") = {}
    /\ (lg_pc["callback"] = "ring_lock" /\ lg_held["ring"] # "none")
         => (lg_held["ring"] = "producer" /\ lg_pc["producer"] \in {"check", "push"})
    /\ \A c \in Contexts :
         HeldBy(c) # {} => (WaitsFor(c) = {} /\ lg_pc[c] # "join")

\* All three contexts at once: the owner is assigning the IR under its lock,
\* the feeder is pushing under the ring lock, and the callback waits for the
\* ring.
C23_Witness ==
    /\ lg_held["ir"] = "owner"
    /\ lg_held["ring"] = "producer"
    /\ lg_pc["producer"] = "push"
    /\ lg_pc["callback"] = "ring_lock"

\* The impulse responses the cell has held in full.
WholeIrs == LgIrCandidates

\* C26: each process call convolves its whole block with one impulse
\* response, the clone taken under the IR lock: the clone is never a partly
\* assigned IR, it is the IR of the last swap_ir that returned (also one that
\* returned while stopped), the block is computed from the clone even when
\* the shared IR has changed since, and a swap_ir changes nothing of a block
\* in progress.
C26_WholeSnapshot ==
    /\ [](lg_snapshot \in WholeIrs)
    /\ [][/\ (lg_pc["producer"] = "snapshot" /\ lg_pc'["producer"] = "convolve")
               => (lg_snapshot' = lg_returned /\ lg_snapshot' = lg_ir)
          /\ (lg_pc["producer"] = "convolve" /\ lg_pc'["producer"] = "push_lock")
               => \E r \in {Process(lg_overlap, lg_snapshot, lg_raw)} :
                    /\ lg_processed' = r.output
                    /\ lg_overlap' = r.overlap
                    /\ lg_snapshot' = lg_snapshot
          /\ lg_ir' # lg_ir
               => UNCHANGED <<lg_snapshot, lg_processed, lg_overlap, lg_raw>>]_vars

\* A block was convolved with the clone [1, 2] after swap_ir had stored
\* [2, 1]: the swap ran while the block was in progress.
C26_Witness ==
    /\ lg_pc["producer"] = "push_lock"
    /\ lg_snapshot = <<1, 2>>
    /\ lg_ir = <<2, 1>>
    /\ lg_returned = <<2, 1>>
    /\ lg_processed = Process(<<>>, <<1, 2>>, lg_raw).output
    /\ lg_processed # Process(<<>>, <<2, 1>>, lg_raw).output

\* ---- cancellation ----
\* The pipeline of SpecFeed, which the owner may also drop.
CancelNext == FeedNext \/ DropPipeline

SpecCancel == FeedInit /\ [][CancelNext]_vars /\ FeedFairness

\* C22: once stop() or the drop of a playing pipeline has cleared the running
\* flag, the feeder never starts another iteration: at the top of its loop
\* it only returns, a thread not yet in its loop reaches the loop test
\* without touching the ring, and the ring grows only by the block that was
\* already computed when the flag was cleared (after that push the feeder is
\* at the loop test, so at most one more block is pushed); and the join in
\* stop() always ends, also when the ring is full and the stream is gone.
C22_StopCompletes ==
    /\ [][\A s \in Sessions :
            ~feeder_running =>
              /\ (feeder[s].pc = "loop" /\ feeder'[s] # feeder[s])
                   => feeder'[s].pc = "exited"
              /\ (feeder[s].pc = "start" /\ feeder'[s] # feeder[s])
                   => (feeder'[s].pc = "loop" /\ ring'[s] = ring[s])
              /\ (feeder[s].pc = "push" /\ feeder'[s] # feeder[s])
                   => (feeder'[s].pc = "loop" /\ feeder'[s].processed = <<>>)
              /\ Len(ring'[s]) > Len(ring[s])
                   => (feeder[s].pc = "push"
                       /\ ring'[s] = ring[s] \o feeder[s].processed)]_vars
    /\ (owner_pc = "stop_join") ~> (owner_pc \in {"idle", "dropped"})

\* stop() is waiting in its join with the stream already dropped, while the
\* feeder sits at its loop test with a full ring that nobody drains.
C22_Witness ==
    /\ owner_pc = "stop_join"
    /\ ~feeder_running
    /\ stream = 0
    /\ feeder_handle # 0
    /\ feeder[feeder_handle].pc = "loop"
    /\ RingFull(ring[feeder_handle])

\* ---- the ring between feeder and callback ----
\* Samples recorded per session.
MaxHist == 6

\* The push, recorded: the block goes onto the record of pushed samples.
RecordedPush(s) ==
    /\ FeederPushStep(s)
    /\ Len(h_pushed[s]) + Len(feeder[s].processed) <= MaxHist
    /\ h_pushed' = [h_pushed EXCEPT ![s] = @ \o feeder[s].processed]
    /\ UNCHANGED <<h_played, conv_vars, pump_vars, vol_vars, acoustic_vars,
                   irc_vars, lg_vars>>

\* The callback, recorded: the samples pop_front returned go onto the record
\* of played samples.
RecordedCallback ==
    \E frames \in FrameCounts :
        /\ CallbackStep(frames)
        /\ h_played' = [h_played EXCEPT ![stream] =
               @ \o SubSeq(ring[stream], 1, Len(ring[stream]) - Len(ring'[stream]))]
        /\ UNCHANGED <<h_pushed, conv_vars, pump_vars, vol_vars, acoustic_vars,
                       irc_vars, lg_vars>>

RingNext ==
    \/ SetPumpParams
    \/ PlaySpawn
    \/ PlayStarted
    \/ StopSignal
    \/ StopJoin
    \/ \E s \in Sessions : FeederStart(s)
    \/ \E s \in Sessions : FeederLoop(s)
    \/ \E s \in Sessions : RecordedPush(s)
    \/ RecordedCallback

SpecRing == FeedInit /\ [][RingNext]_vars

\* The ring of session s exists: its stream or its feeder thread holds it.
RingLive(s) == stream = s \/ feeder[s].pc \notin {"none", "exited"}

\* C27: within a session the ring is a FIFO.  What was pushed is, in order,
\* what was popped followed by what the ring still holds, so the popped
\* samples are a prefix of the pushed ones with nothing repeated, skipped or
\* reordered; and each frame of a callback carries the next pushed sample
\* not yet played (scaled by the volume), or silence exactly when every
\* pushed sample has been played, that is when the ring is empty at that
\* frame.
C27_RingFifo ==
    /\ [](\A s \in Sessions :
            /\ Len(h_played[s]) <= Len(h_pushed[s])
            /\ h_played[s] = SubSeq(h_pushed[s], 1, Len(h_played[s]))
            /\ RingLive(s) => h_pushed[s] = h_played[s] \o ring[s])
    /\ [][cb'.called =>
            /\ stream # 0
            /\ \A i \in 1..Len(cb'.data) :
                 LET pos == Len(h_played[stream]) + i
                     sample == IF pos <= Len(h_pushed[stream])
                               THEN h_pushed[stream][pos] ELSE 0
                 IN /\ cb'.data[i] = [c \in 1..device.channels |->
                                         Encode(device.format, sample, volume)]
                    /\ (pos <= Len(h_pushed[stream])) <=> (i <= Len(ring[stream]))
            /\ Len(h_played'[stream]) =
                 Min(Len(h_played[stream]) + Len(cb'.data), Len(h_pushed[stream]))]_vars

\* A callback of two frames found one sample in the ring: it delivered that
\* sample and one frame of silence.  By then two blocks of different samples
\* had been pushed and all of them played, over several callbacks.
C27_Witness ==
    /\ cb.called
    /\ Len(cb.data) = 2
    /\ Len(cb.ring) = 1
    /\ Len(h_pushed[stream]) = 2 * block_size
    /\ h_played[stream] = h_pushed[stream]
    /\ \E i, j \in 1..Len(h_pushed[stream]) : h_pushed[stream][i] # h_pushed[stream][j]

====
